---- MODULE Spec2Model ----
(***************************************************************************)
(* Model of the Excel formula tokenizer of package efp (src/efp.go).       *)
(*                                                                         *)
(* A string is a sequence of one-character strings (one per code point).   *)
(* Go's 0-based indices are kept: Items[i] of the source is Items[i + 1]   *)
(* here.  A run of Parse is cut into steps: the call with the input        *)
(* normalisation, one step per iteration of the scan loop, the flush of    *)
(* the accumulator, one step per iteration of each of the three token      *)
(* walks, and the return.                                                  *)
(***************************************************************************)
EXTENDS Integers, Sequences, FiniteSets, TLC

\* ------------------------------------------------------------------ bounds

\* Longest input formula over the full alphabet (specification Spec).
MaxLen == 3

\* Longest input formula over the small alphabet (specification SpecDeep).
MaxDeepLen == 4

\* Longest input formula of the two calls of specification SpecReuse.
MaxReuseLen == 2

\* Longest run of spaces put into a worked formula.
MaxRun == 2

\* Longest formula of the runs over the characters of numbers.
MaxSciLen == 5

\* Longest formula of the runs over the characters of text literals.
MaxTextLen == 4

\* Longest formula of the runs over the mode-opening characters.
MaxModeLen == 4

\* Longest formula of the runs over the characters of "#N/A".
MaxErrorLen == 5

\* Longest formula of the runs over the signs and what can stand in front of
\* them.
MaxSignLen == 4

\* Longest formula of the runs over the comparison, residual and postfix
\* operators.
MaxOpsLen == 3

\* Longest formula of the runs checked for termination.
MaxTerminationLen == 3

\* Longest formula of the runs over the grouping characters.
MaxGroupLen == 4

\* Longest formula of the runs that pad formulas with white space.
MaxTrimLen == 4

\* ------------------------------------------------------- character classes

QuoteDouble == "\""
QuoteSingle == "'"
BracketClose == "]"
BracketOpen == "["
BraceOpen == "{"
BraceClose == "}"
ParenOpen == "("
ParenClose == ")"
Semicolon == ";"
Whitespace == " "
Comma == ","
ErrorStart == "#"

OperatorsSN == {"+", "-"}
OperatorsInfix == {"+", "-", "*", "/", "^", "&", "=", ">", "<"}
OperatorsPostfix == {"%"}

TokenTypeNoop == "Noop"
TokenTypeOperand == "Operand"
TokenTypeFunction == "Function"
TokenTypeSubexpression == "Subexpression"
TokenTypeArgument == "Argument"
TokenTypeOperatorPrefix == "OperatorPrefix"
TokenTypeOperatorInfix == "OperatorInfix"
TokenTypeOperatorPostfix == "OperatorPostfix"
TokenTypeWhitespace == "Whitespace"
TokenTypeUnknown == "Unknown"

TokenSubTypeStart == "Start"
TokenSubTypeStop == "Stop"
TokenSubTypeText == "Text"
TokenSubTypeNumber == "Number"
TokenSubTypeLogical == "Logical"
TokenSubTypeError == "Error"
TokenSubTypeRange == "Range"
TokenSubTypeMath == "Math"
TokenSubTypeConcatenation == "Concatenation"
TokenSubTypeIntersection == "Intersection"
TokenSubTypeUnion == "Union"

\* The subtype the source writes as the empty string.
NoSubType == ""

Digits19 == {"1", "2", "3", "4", "5", "6", "7", "8", "9"}
Digits == {"0"} \cup Digits19

\* The white space strings.TrimSpace removes (the ASCII part of it).
SpaceChars == {" ", "\t", "\n", "\r"}

\* ------------------------------------------------------------------ tokens

fToken(value, tokenType, subType) ==
  [TValue |-> value, TType |-> tokenType, TSubType |-> subType]

fTokens == [Index |-> -1, Items |-> <<>>]

\* Mutant: the parser's streams start as fTokens() makes them.
ZeroTokensReset == [Index |-> -1, Items |-> <<>>]

\* The zero value Tokens{} of a Parser{} literal: Index is 0, not -1.
ZeroTokens == [Index |-> 0, Items |-> <<>>]

\* A nil *Token; reading a field of it is a runtime panic.
NilToken == [TValue |-> <<>>, TType |-> "<nil>", TSubType |-> "<nil>"]

\* Mutant: the token is put in front of the list.
addRefInFront(tk, token) == [tk EXCEPT !.Items = <<token>> \o @]

addRef(tk, token) == [tk EXCEPT !.Items = Append(@, token)]

add(tk, value, tokenType, subType) == addRef(tk, fToken(value, tokenType, subType))

reset(tk) == [tk EXCEPT !.Index = -1]

BOF(tk) == tk.Index <= 0

EOF(tk) == tk.Index >= Len(tk.Items) - 1

moveNext(tk) == IF EOF(tk) THEN tk ELSE [tk EXCEPT !.Index = @ + 1]

current(tk) == IF tk.Index = -1 THEN NilToken ELSE tk.Items[tk.Index + 1]

next(tk) == IF EOF(tk) THEN NilToken ELSE tk.Items[tk.Index + 2]

previous(tk) == IF tk.Index < 1 THEN NilToken ELSE tk.Items[tk.Index]

push(tk, token) == [tk EXCEPT !.Items = Append(@, token)]

\* Mutant: an empty stack pops as the Stop of a subexpression.
popEmptySubexpression(tk) ==
  IF Len(tk.Items) = 0
    THEN fToken(<<>>, TokenTypeSubexpression, TokenSubTypeStop)
    ELSE fToken(<<>>, tk.Items[Len(tk.Items)].TType, TokenSubTypeStop)

\* pop returns the Stop token; popRest is the stack it leaves.
pop(tk) ==
  IF Len(tk.Items) = 0
    THEN fToken(<<>>, TokenTypeFunction, TokenSubTypeStop)
    ELSE fToken(<<>>, tk.Items[Len(tk.Items)].TType, TokenSubTypeStop)

popRest(tk) ==
  IF Len(tk.Items) = 0
    THEN tk
    ELSE [tk EXCEPT !.Items = SubSeq(@, 1, Len(@) - 1)]

\* Mutant: the type of the outermost open group is returned.
tpOutermost(tk) ==
  IF Len(tk.Items) > 0 THEN tk.Items[1].TType ELSE ""

tp(tk) == IF Len(tk.Items) > 0 THEN tk.Items[Len(tk.Items)].TType ELSE ""

\* ------------------------------------------------------------------ parser

\* Mutant: the parser's token stream starts before its first item, as a
\* stream made by fTokens does.
ExcelParserBeforeFirst ==
  [Formula |-> <<>>, Tokens |-> fTokens, TokenStack |-> fTokens,
   Offset |-> 0, Token |-> <<>>,
   InString |-> FALSE, InPath |-> FALSE, InRange |-> FALSE, InError |-> FALSE,
   Panic |-> FALSE]

\* Parser{}: every field is its zero value.  Panic is not a field of the
\* source: it records that the run was ended by a runtime panic.
ExcelParser ==
  [Formula |-> <<>>, Tokens |-> ZeroTokens, TokenStack |-> ZeroTokens,
   Offset |-> 0, Token |-> <<>>,
   InString |-> FALSE, InPath |-> FALSE, InRange |-> FALSE, InError |-> FALSE,
   Panic |-> FALSE]

ParserEOF(p) == p.Offset >= Len(p.Formula)

\* currentChar indexes the rune slice without a bounds test.
CurrentCharPanics(p) == p.Offset >= Len(p.Formula)

currentChar(p) == IF CurrentCharPanics(p) THEN "" ELSE p.Formula[p.Offset + 1]

\* Mutant: off by one, the character at the offset itself is returned.
nextCharAtOffset(p) ==
  IF Len(p.Formula) >= p.Offset + 1 THEN p.Formula[p.Offset + 1] ELSE ""

nextChar(p) ==
  IF Len(p.Formula) >= p.Offset + 2 THEN p.Formula[p.Offset + 2] ELSE ""

doubleChar(p) ==
  IF Len(p.Formula) >= p.Offset + 2
    THEN SubSeq(p.Formula, p.Offset + 1, p.Offset + 2)
    ELSE <<>>

RECURSIVE TrimLeft(_)
TrimLeft(s) ==
  IF s # <<>> /\ Head(s) \in SpaceChars THEN TrimLeft(Tail(s)) ELSE s

RECURSIVE TrimRight(_)
TrimRight(s) ==
  IF s # <<>> /\ s[Len(s)] \in SpaceChars
    THEN TrimRight(SubSeq(s, 1, Len(s) - 1))
    ELSE s

\* Mutant: only the leading white space is trimmed.
TrimSpaceLeftOnly(s) == TrimLeft(s)

TrimSpace(s) == TrimRight(TrimLeft(s))

\* Mutant: the "=" is prepended to the formula as it was passed.
NormalizeUntrimmed(s) ==
  IF Len(s) > 0 /\ s[1] # "=" THEN <<"=">> \o s ELSE s

\* The head of getTokens: trim, then prepend "=" when it is missing.
Normalize(s) ==
  LET f == TrimSpace(s)
  IN  IF Len(f) > 0 /\ f[1] # "=" THEN <<"=">> \o f ELSE f

\* --------------------------------------------------------------- scan loop

\* "if len(ps.Token) > 0 { ps.Tokens.add(ps.Token, tokenType, ""); ps.Token = "" }"
FlushToken(p, tokenType) ==
  IF Len(p.Token) > 0
    THEN [p EXCEPT !.Tokens = add(@, p.Token, tokenType, NoSubType),
                   !.Token = <<>>]
    ELSE p

Advance(p, n) == [p EXCEPT !.Offset = @ + n]

\* Mutant: a doubled quote moves the offset three characters on.
ScanInStringDoubledSkipsThree(p) ==
  IF currentChar(p) = QuoteDouble
    THEN IF nextChar(p) = QuoteDouble
           THEN Advance([p EXCEPT !.Token = Append(@, QuoteDouble)], 3)
           ELSE Advance([p EXCEPT !.InString = FALSE,
                                  !.Tokens = add(@, p.Token, TokenTypeOperand,
                                                 TokenSubTypeText),
                                  !.Token = <<>>], 1)
    ELSE Advance([p EXCEPT !.Token = Append(@, currentChar(p))], 1)

\* double-quoted strings: embeds are doubled, end marks token
ScanInString(p) ==
  IF currentChar(p) = QuoteDouble
    THEN IF nextChar(p) = QuoteDouble
           THEN Advance([p EXCEPT !.Token = Append(@, QuoteDouble)], 2)
           ELSE Advance([p EXCEPT !.InString = FALSE,
                                  !.Tokens = add(@, p.Token, TokenTypeOperand,
                                                 TokenSubTypeText),
                                  !.Token = <<>>], 1)
    ELSE Advance([p EXCEPT !.Token = Append(@, currentChar(p))], 1)

\* Mutant: the end of a single-quoted string marks a token, as the end of a
\* double-quoted string does.
ScanInPathEndMarks(p) ==
  IF currentChar(p) = QuoteSingle
    THEN IF nextChar(p) = QuoteSingle
           THEN Advance([p EXCEPT !.Token = Append(@, QuoteSingle)], 2)
           ELSE Advance([p EXCEPT !.InPath = FALSE,
                                  !.Tokens = add(@, p.Token, TokenTypeOperand,
                                                 NoSubType),
                                  !.Token = <<>>], 1)
    ELSE Advance([p EXCEPT !.Token = Append(@, currentChar(p))], 1)

\* single-quoted strings (links): embeds are doubled, end does not mark a token
ScanInPath(p) ==
  IF currentChar(p) = QuoteSingle
    THEN IF nextChar(p) = QuoteSingle
           THEN Advance([p EXCEPT !.Token = Append(@, QuoteSingle)], 2)
           ELSE Advance([p EXCEPT !.InPath = FALSE], 1)
    ELSE Advance([p EXCEPT !.Token = Append(@, currentChar(p))], 1)

\* bracketed strings: no embeds, end does not mark a token
ScanInRange(p) ==
  Advance([p EXCEPT !.InRange = (IF currentChar(p) = BracketClose THEN FALSE ELSE @),
                    !.Token = Append(@, currentChar(p))], 1)

ErrorLiterals ==
  { <<"#", "N", "U", "L", "L", "!">>,
    <<"#", "D", "I", "V", "/", "0", "!">>,
    <<"#", "V", "A", "L", "U", "E", "!">>,
    <<"#", "R", "E", "F", "!">>,
    <<"#", "N", "A", "M", "E", "?">>,
    <<"#", "N", "U", "M", "!">>,
    <<"#", "N", "/", "A">> }

\* Mutant: the accumulator is looked up before the character is appended.
ScanInErrorLooksUpFirst(p) ==
  LET q == Advance([p EXCEPT !.Token = Append(@, currentChar(p))], 1)
  IN  IF p.Token \in ErrorLiterals
        THEN [q EXCEPT !.InError = FALSE,
                       !.Tokens = add(@, q.Token, TokenTypeOperand,
                                      TokenSubTypeError),
                       !.Token = <<>>]
        ELSE q

\* error values: end marks a token, determined from the absolute list
ScanInError(p) ==
  LET q == Advance([p EXCEPT !.Token = Append(@, currentChar(p))], 1)
  IN  IF q.Token \in ErrorLiterals
        THEN [q EXCEPT !.InError = FALSE,
                       !.Tokens = add(@, q.Token, TokenTypeOperand,
                                      TokenSubTypeError),
                       !.Token = <<>>]
        ELSE q

\* Mutant: the regexp without its "^": the end of the accumulator matches.
SciNotationMatchUnanchored(tok) ==
  \E k \in 1..Len(tok) :
    LET t == SubSeq(tok, k, Len(tok))
    IN  /\ Len(t) >= 2
        /\ t[1] \in Digits19
        /\ t[Len(t)] = "E"
        /\ \/ Len(t) = 2
           \/ /\ Len(t) >= 4
              /\ t[2] = "."
              /\ \A i \in 3..(Len(t) - 1) : t[i] \in Digits

\* regexp ^[1-9]{1}(\.[0-9]+)?E{1}$
SciNotationMatch(tok) ==
  /\ Len(tok) >= 2
  /\ tok[1] \in Digits19
  /\ tok[Len(tok)] = "E"
  /\ \/ Len(tok) = 2
     \/ /\ Len(tok) >= 4
        /\ tok[2] = "."
        /\ \A i \in 3..(Len(tok) - 1) : tok[i] \in Digits

\* scientific notation check: the guard of the branch
SciNotationCheck(p) ==
  /\ currentChar(p) \in OperatorsSN
  /\ Len(p.Token) > 1
  /\ SciNotationMatch(p.Token)

ScanSciNotation(p) ==
  Advance([p EXCEPT !.Token = Append(@, currentChar(p))], 1)

\* Mutant: the pending accumulator is flushed as an Operand.
ScanQuoteDoubleFlushesOperand(p) ==
  Advance([FlushToken(p, TokenTypeOperand) EXCEPT !.InString = TRUE], 1)

ScanQuoteDouble(p) ==
  Advance([FlushToken(p, TokenTypeUnknown) EXCEPT !.InString = TRUE], 1)

ScanQuoteSingle(p) ==
  Advance([FlushToken(p, TokenTypeUnknown) EXCEPT !.InPath = TRUE], 1)

ScanBracketOpen(p) ==
  Advance([p EXCEPT !.InRange = TRUE, !.Token = Append(@, currentChar(p))], 1)

ScanErrorStart(p) ==
  LET q == FlushToken(p, TokenTypeUnknown)
  IN  Advance([q EXCEPT !.InError = TRUE,
                        !.Token = Append(@, currentChar(p))], 1)

ArrayToken == fToken(<<"A", "R", "R", "A", "Y">>, TokenTypeFunction, TokenSubTypeStart)

ArrayRowToken ==
  fToken(<<"A", "R", "R", "A", "Y", "R", "O", "W">>, TokenTypeFunction,
         TokenSubTypeStart)

\* ps.TokenStack.push(ps.Tokens.add(value, tokenType, subType))
AddAndPush(p, token) ==
  [p EXCEPT !.Tokens = addRef(@, token), !.TokenStack = push(@, token)]

\* ps.Tokens.addRef(ps.TokenStack.pop())
PopAndAdd(p) ==
  [p EXCEPT !.Tokens = addRef(@, pop(p.TokenStack)),
            !.TokenStack = popRest(@)]

\* Mutant: "}" closes the row and leaves the array open.
ScanBraceCloseOnce(p) ==
  Advance(PopAndAdd(FlushToken(p, TokenTypeOperand)), 1)

\* mark start and end of arrays and array rows
ScanBraceOpen(p) ==
  Advance(AddAndPush(AddAndPush(FlushToken(p, TokenTypeUnknown), ArrayToken),
                     ArrayRowToken), 1)

\* Mutant: the new row is added to the output and not pushed.
ScanSemicolonNoPush(p) ==
  LET q == PopAndAdd(FlushToken(p, TokenTypeOperand))
      r == [q EXCEPT !.Tokens = add(@, <<",">>, TokenTypeArgument, NoSubType)]
  IN  Advance([r EXCEPT !.Tokens = addRef(@, ArrayRowToken)], 1)

\* Mutant: the row separator is added before the row is closed.
ScanSemicolonCommaFirst(p) ==
  LET q == FlushToken(p, TokenTypeOperand)
      r == [q EXCEPT !.Tokens = add(@, <<",">>, TokenTypeArgument, NoSubType)]
  IN  Advance(AddAndPush(PopAndAdd(r), ArrayRowToken), 1)

ScanSemicolon(p) ==
  LET q == PopAndAdd(FlushToken(p, TokenTypeOperand))
      r == [q EXCEPT !.Tokens = add(@, <<",">>, TokenTypeArgument, NoSubType)]
  IN  Advance(AddAndPush(r, ArrayRowToken), 1)

ScanBraceClose(p) ==
  Advance(PopAndAdd(PopAndAdd(FlushToken(p, TokenTypeOperand))), 1)

\* "for (ps.currentChar() == " ") && (!ps.EOF()) { ps.Offset++ }":
\* currentChar is evaluated first, so the loop panics when it reaches the end.
RECURSIVE SkipSpaces(_)
SkipSpaces(p) ==
  IF CurrentCharPanics(p)
    THEN [p EXCEPT !.Panic = TRUE]
    ELSE IF currentChar(p) = Whitespace /\ ~ParserEOF(p)
           THEN SkipSpaces(Advance(p, 1))
           ELSE p

\* Mutant: the Whitespace token keeps the character that was read.
ScanWhitespaceKeepsChar(p) ==
  LET q == FlushToken(p, TokenTypeOperand)
      r == [q EXCEPT !.Tokens = add(@, <<currentChar(p)>>, TokenTypeWhitespace,
                                    NoSubType)]
  IN  SkipSpaces(Advance(r, 1))

\* trim white-space
ScanWhitespace(p) ==
  LET q == FlushToken(p, TokenTypeOperand)
      r == [q EXCEPT !.Tokens = add(@, <<>>, TokenTypeWhitespace, NoSubType)]
  IN  SkipSpaces(Advance(r, 1))

Comparators == { <<">", "=">>, <<"<", "=">>, <<"<", ">">> }

\* Mutant: a comparator advances the offset by one character only.
ScanComparatorAdvanceOne(p) ==
  LET q == FlushToken(p, TokenTypeOperand)
  IN  Advance([q EXCEPT !.Tokens = add(@, doubleChar(p), TokenTypeOperatorInfix,
                                       TokenSubTypeLogical)], 1)

\* multi-character comparators
ScanComparator(p) ==
  LET q == FlushToken(p, TokenTypeOperand)
  IN  Advance([q EXCEPT !.Tokens = add(@, doubleChar(p), TokenTypeOperatorInfix,
                                       TokenSubTypeLogical)], 2)

\* standard infix operators
ScanInfix(p) ==
  LET q == FlushToken(p, TokenTypeOperand)
  IN  Advance([q EXCEPT !.Tokens = add(@, <<currentChar(p)>>,
                                       TokenTypeOperatorInfix, NoSubType)], 1)

\* standard postfix operators
ScanPostfix(p) ==
  LET q == FlushToken(p, TokenTypeOperand)
  IN  Advance([q EXCEPT !.Tokens = add(@, <<currentChar(p)>>,
                                       TokenTypeOperatorPostfix, NoSubType)], 1)

\* Mutant: the accumulator is flushed as an Operand and a subexpression is
\* started whatever it held.
ScanParenOpenFlushesOperand(p) ==
  Advance(AddAndPush(FlushToken(p, TokenTypeOperand),
                     fToken(<<>>, TokenTypeSubexpression, TokenSubTypeStart)), 1)

\* start subexpression or function
ScanParenOpen(p) ==
  IF Len(p.Token) > 0
    THEN Advance([AddAndPush(p, fToken(p.Token, TokenTypeFunction,
                                       TokenSubTypeStart))
                   EXCEPT !.Token = <<>>], 1)
    ELSE Advance(AddAndPush(p, fToken(<<>>, TokenTypeSubexpression,
                                      TokenSubTypeStart)), 1)

\* function, subexpression, array parameters
ScanComma(p) ==
  LET q == FlushToken(p, TokenTypeOperand)
  IN  IF tp(q.TokenStack) # TokenTypeFunction
        THEN Advance([q EXCEPT !.Tokens = add(@, <<currentChar(p)>>,
                                              TokenTypeOperatorInfix,
                                              TokenSubTypeUnion)], 1)
        ELSE Advance([q EXCEPT !.Tokens = add(@, <<currentChar(p)>>,
                                              TokenTypeArgument, NoSubType)], 1)

\* stop subexpression
ScanParenClose(p) ==
  Advance(PopAndAdd(FlushToken(p, TokenTypeOperand)), 1)

\* token accumulation
ScanAccumulate(p) ==
  Advance([p EXCEPT !.Token = Append(@, currentChar(p))], 1)

\* Mutant: the quote branches are tried before the bracketed-string branch.
ScanIterationRangeLate(p) ==
  IF p.InString THEN ScanInString(p)
  ELSE IF p.InPath THEN ScanInPath(p)
  ELSE IF p.InError THEN ScanInError(p)
  ELSE IF SciNotationCheck(p) THEN ScanSciNotation(p)
  ELSE IF currentChar(p) = QuoteDouble THEN ScanQuoteDouble(p)
  ELSE IF currentChar(p) = QuoteSingle THEN ScanQuoteSingle(p)
  ELSE IF p.InRange THEN ScanInRange(p)
  ELSE IF currentChar(p) = BracketOpen THEN ScanBracketOpen(p)
  ELSE IF currentChar(p) = ErrorStart THEN ScanErrorStart(p)
  ELSE IF currentChar(p) = BraceOpen THEN ScanBraceOpen(p)
  ELSE IF currentChar(p) = Semicolon THEN ScanSemicolon(p)
  ELSE IF currentChar(p) = BraceClose THEN ScanBraceClose(p)
  ELSE IF currentChar(p) = Whitespace THEN ScanWhitespace(p)
  ELSE IF doubleChar(p) \in Comparators THEN ScanComparator(p)
  ELSE IF currentChar(p) \in OperatorsInfix THEN ScanInfix(p)
  ELSE IF currentChar(p) \in OperatorsPostfix THEN ScanPostfix(p)
  ELSE IF currentChar(p) = ParenOpen THEN ScanParenOpen(p)
  ELSE IF currentChar(p) = Comma THEN ScanComma(p)
  ELSE IF currentChar(p) = ParenClose THEN ScanParenClose(p)
  ELSE ScanAccumulate(p)

\* One iteration of "for !ps.EOF()": the first branch that matches runs.
ScanIteration(p) ==
  IF p.InString THEN ScanInString(p)
  ELSE IF p.InPath THEN ScanInPath(p)
  ELSE IF p.InRange THEN ScanInRange(p)
  ELSE IF p.InError THEN ScanInError(p)
  ELSE IF SciNotationCheck(p) THEN ScanSciNotation(p)
  ELSE IF currentChar(p) = QuoteDouble THEN ScanQuoteDouble(p)
  ELSE IF currentChar(p) = QuoteSingle THEN ScanQuoteSingle(p)
  ELSE IF currentChar(p) = BracketOpen THEN ScanBracketOpen(p)
  ELSE IF currentChar(p) = ErrorStart THEN ScanErrorStart(p)
  ELSE IF currentChar(p) = BraceOpen THEN ScanBraceOpen(p)
  ELSE IF currentChar(p) = Semicolon THEN ScanSemicolon(p)
  ELSE IF currentChar(p) = BraceClose THEN ScanBraceClose(p)
  ELSE IF currentChar(p) = Whitespace THEN ScanWhitespace(p)
  ELSE IF doubleChar(p) \in Comparators THEN ScanComparator(p)
  ELSE IF currentChar(p) \in OperatorsInfix THEN ScanInfix(p)
  ELSE IF currentChar(p) \in OperatorsPostfix THEN ScanPostfix(p)
  ELSE IF currentChar(p) = ParenOpen THEN ScanParenOpen(p)
  ELSE IF currentChar(p) = Comma THEN ScanComma(p)
  ELSE IF currentChar(p) = ParenClose THEN ScanParenClose(p)
  ELSE ScanAccumulate(p)

\* Mutant: the remaining accumulation is dumped the way the mode-opening
\* branches flush it, as Unknown.
DumpRemainingUnknown(p) ==
  IF Len(p.Token) > 0
    THEN [p EXCEPT !.Tokens = add(@, p.Token, TokenTypeUnknown, NoSubType)]
    ELSE p

\* dump remaining accumulation (the accumulator itself is not cleared)
DumpRemaining(p) ==
  IF Len(p.Token) > 0
    THEN [p EXCEPT !.Tokens = add(@, p.Token, TokenTypeOperand, NoSubType)]
    ELSE p

\* ------------------------------------------------------ strconv.ParseFloat

lower(c) ==
  LET UpperLetters ==
        <<"A", "B", "C", "D", "E", "F", "G", "H", "I", "J", "K", "L", "M",
          "N", "O", "P", "Q", "R", "S", "T", "U", "V", "W", "X", "Y", "Z">>
      LowerLetters ==
        <<"a", "b", "c", "d", "e", "f", "g", "h", "i", "j", "k", "l", "m",
          "n", "o", "p", "q", "r", "s", "t", "u", "v", "w", "x", "y", "z">>
  IN  IF \E i \in 1..Len(UpperLetters) : UpperLetters[i] = c
        THEN LowerLetters[CHOOSE i \in 1..Len(UpperLetters) : UpperLetters[i] = c]
        ELSE c

LowerString(s) == [i \in 1..Len(s) |-> lower(s[i])]

DigitValue(c) ==
  LET DigitChars == <<"0", "1", "2", "3", "4", "5", "6", "7", "8", "9">>
  IN  (CHOOSE i \in 1..Len(DigitChars) : DigitChars[i] = c) - 1

StripSign(s) == IF s # <<>> /\ s[1] \in {"+", "-"} THEN Tail(s) ELSE s

\* "Inf", "Infinity" (optionally signed) and "NaN" (unsigned), whatever the case.
IsSpecialFloat(s) ==
  \/ LowerString(StripSign(s)) \in { <<"i", "n", "f">>,
                                     <<"i", "n", "f", "i", "n", "i", "t", "y">> }
  \/ LowerString(s) = <<"n", "a", "n">>

\* Index of the first character that is neither a digit nor ".", or Len + 1.
MantissaEnd(s) ==
  IF \E i \in 1..Len(s) : s[i] \notin Digits \cup {"."}
    THEN CHOOSE i \in 1..Len(s) :
           /\ s[i] \notin Digits \cup {"."}
           /\ \A j \in 1..(i - 1) : s[j] \in Digits \cup {"."}
    ELSE Len(s) + 1

Mantissa(s) == SubSeq(s, 1, MantissaEnd(s) - 1)

\* What follows the exponent marker, or <<>> when there is no exponent.
ExponentPart(s) == SubSeq(s, MantissaEnd(s) + 1, Len(s))

HasExponent(s) == MantissaEnd(s) <= Len(s)

\* The decimal syntax readFloat accepts after the sign (base 10, no "_").
IsDecimalSyntax(s) ==
  /\ Cardinality({i \in 1..Len(Mantissa(s)) : Mantissa(s)[i] = "."}) <= 1
  /\ Cardinality({i \in 1..Len(Mantissa(s)) : Mantissa(s)[i] \in Digits}) >= 1
  /\ HasExponent(s) =>
       /\ lower(s[MantissaEnd(s)]) = "e"
       /\ StripSign(ExponentPart(s)) # <<>>
       /\ \A i \in 1..Len(StripSign(ExponentPart(s))) :
            StripSign(ExponentPart(s))[i] \in Digits

RECURSIVE DecimalValue(_)
DecimalValue(ds) ==
  IF ds = <<>> THEN 0
  ELSE LET v == DecimalValue(SubSeq(ds, 1, Len(ds) - 1))
       IN  IF v >= 10000 THEN 10000 ELSE 10 * v + DigitValue(ds[Len(ds)])

\* The exponent after "e"; readFloat stops counting at 10000.
ExponentValue(s) ==
  IF ~HasExponent(s) THEN 0
  ELSE LET e == ExponentPart(s)
       IN  IF e[1] = "-" THEN 0 - DecimalValue(StripSign(e))
                         ELSE DecimalValue(StripSign(e))

\* The digits of the mantissa, the "." dropped.
MantissaDigits(s) ==
  LET m == Mantissa(s)
      F[i \in 0..Len(m)] ==
        IF i = 0 THEN <<>>
        ELSE IF m[i] = "." THEN F[i - 1] ELSE Append(F[i - 1], m[i])
  IN  F[Len(m)]

RECURSIVE StripZeros(_)
StripZeros(ds) == IF ds # <<>> /\ ds[1] = "0" THEN StripZeros(Tail(ds)) ELSE ds

\* Number of mantissa digits before the "." (all of them when there is none).
IntegerDigits(s) ==
  LET m == Mantissa(s)
  IN  IF \E i \in 1..Len(m) : m[i] = "."
        THEN (CHOOSE i \in 1..Len(m) : m[i] = ".") - 1
        ELSE Len(m)

\* The first 17 digits of the largest finite float64, 1.7976931348623158e308.
MaxFloatDigits ==
  <<"1", "7", "9", "7", "6", "9", "3", "1", "3", "4", "8", "6", "2", "3", "1",
    "5", "8">>

\* Lexicographic ds > MaxFloatDigits, ds padded with zeros (ds of < 17 digits).
RECURSIVE DigitsAbove(_, _)
DigitsAbove(ds, i) ==
  IF i > Len(MaxFloatDigits) THEN FALSE
  ELSE LET d == IF i <= Len(ds) THEN DigitValue(ds[i]) ELSE 0
           t == DigitValue(MaxFloatDigits[i])
       IN  IF d > t THEN TRUE
           ELSE IF d < t THEN FALSE
           ELSE DigitsAbove(ds, i + 1)

\* The value 0.d1d2... * 10^pos (d1 # 0) does not fit a float64 (ErrRange).
DecimalOverflows(s) ==
  LET all == MantissaDigits(s)
      sig == StripZeros(all)
      pos == IntegerDigits(s) - (Len(all) - Len(sig)) + ExponentValue(s)
  IN  /\ sig # <<>>
      /\ \/ pos >= 310
         \/ pos = 309 /\ DigitsAbove(sig, 1)

\* strconv.ParseFloat(s, 64) returns a nil error (hexadecimal and "_" forms,
\* which need characters outside every alphabet used here, are left out).
ParseFloatOK(s) ==
  \/ IsSpecialFloat(s)
  \/ /\ IsDecimalSyntax(StripSign(s))
     /\ ~DecimalOverflows(StripSign(s))

\* --------------------------------------------------------- the token walks

IsPair(t, tokenType, subType) == t.TType = tokenType /\ t.TSubType = subType

\* Mutant: only an Operand in front of a white space is accepted.
WhitespacePrevTestOperandOnly(t) == t.TType = TokenTypeOperand

\* The test on previous() of the white-space walk.
WhitespacePrevTest(t) ==
  \/ IsPair(t, TokenTypeFunction, TokenSubTypeStop)
  \/ IsPair(t, TokenTypeSubexpression, TokenSubTypeStop)
  \/ t.TType = TokenTypeOperand

\* Mutant: the successor of a white space is not looked at.
WhitespaceNextTestAny(t) == TRUE

\* The test on next() of the white-space walk.
WhitespaceNextTest(t) ==
  \/ IsPair(t, TokenTypeFunction, TokenSubTypeStart)
  \/ IsPair(t, TokenTypeSubexpression, TokenSubTypeStart)
  \/ t.TType = TokenTypeOperand

\* The body of "for ps.Tokens.moveNext()": tk is ps.Tokens after moveNext, t2
\* is tokens2.  The result is the new tokens2 and whether a nil was read.
WhitespaceWalkBody(tk, t2) ==
  LET token == current(tk)
  IN  IF token = NilToken THEN [tokens2 |-> t2, panic |-> TRUE]
      ELSE IF token.TType = TokenTypeWhitespace
        THEN IF BOF(tk) \/ EOF(tk) THEN [tokens2 |-> t2, panic |-> FALSE]
             ELSE IF previous(tk) = NilToken THEN [tokens2 |-> t2, panic |-> TRUE]
             ELSE IF ~WhitespacePrevTest(previous(tk))
               THEN [tokens2 |-> t2, panic |-> FALSE]
             ELSE IF next(tk) = NilToken THEN [tokens2 |-> t2, panic |-> TRUE]
             ELSE IF ~WhitespaceNextTest(next(tk))
               THEN [tokens2 |-> t2, panic |-> FALSE]
             ELSE [tokens2 |-> add(t2, token.TValue, TokenTypeOperatorInfix,
                                   TokenSubTypeIntersection),
                   panic |-> FALSE]
        ELSE [tokens2 |-> addRef(t2, fToken(token.TValue, token.TType,
                                            token.TSubType)),
              panic |-> FALSE]

\* Mutant: a postfix operator in front of a "-" is not accepted.
MinusPrevTestNoPostfix(t) ==
  \/ IsPair(t, TokenTypeFunction, TokenSubTypeStop)
  \/ IsPair(t, TokenTypeSubexpression, TokenSubTypeStop)
  \/ t.TType = TokenTypeOperand

\* The test on previous() that keeps a "-" infix.
MinusPrevTest(t) ==
  \/ IsPair(t, TokenTypeFunction, TokenSubTypeStop)
  \/ IsPair(t, TokenTypeSubexpression, TokenSubTypeStop)
  \/ t.TType = TokenTypeOperatorPostfix
  \/ t.TType = TokenTypeOperand

\* Mutant: the first "&&" of the test spans the whole disjunction behind it.
PlusPrevTestAndFirst(t) ==
  /\ t.TType = TokenTypeFunction
  /\ \/ t.TSubType = TokenSubTypeStop
     \/ t.TType = TokenTypeSubexpression /\ t.TSubType = TokenSubTypeStop
     \/ t.TType = TokenTypeOperatorPostfix
     \/ t.TType = TokenTypeOperand

\* The test on previous() that keeps a "+" infix, grouped as the source groups it.
PlusPrevTest(t) ==
  \/ t.TType = TokenTypeFunction /\ t.TSubType = TokenSubTypeStop
  \/ (\/ t.TType = TokenTypeSubexpression /\ t.TSubType = TokenSubTypeStop
      \/ t.TType = TokenTypeOperatorPostfix
      \/ t.TType = TokenTypeOperand)

SetCurrent(tk, token) == [tk EXCEPT !.Items[tk.Index + 1] = token]

RetypeMinus(tk) ==
  LET token == current(tk)
  IN  IF BOF(tk)
        THEN [tokens2 |-> SetCurrent(tk, [token EXCEPT !.TType = TokenTypeOperatorPrefix]),
              panic |-> FALSE]
      ELSE IF previous(tk) = NilToken THEN [tokens2 |-> tk, panic |-> TRUE]
      ELSE IF MinusPrevTest(previous(tk))
        THEN [tokens2 |-> SetCurrent(tk, [token EXCEPT !.TSubType = TokenSubTypeMath]),
              panic |-> FALSE]
      ELSE [tokens2 |-> SetCurrent(tk, [token EXCEPT !.TType = TokenTypeOperatorPrefix]),
            panic |-> FALSE]

RetypePlus(tk) ==
  LET token == current(tk)
  IN  IF BOF(tk)
        THEN [tokens2 |-> SetCurrent(tk, [token EXCEPT !.TType = TokenTypeNoop]),
              panic |-> FALSE]
      ELSE IF previous(tk) = NilToken THEN [tokens2 |-> tk, panic |-> TRUE]
      ELSE IF PlusPrevTest(previous(tk))
        THEN [tokens2 |-> SetCurrent(tk, [token EXCEPT !.TSubType = TokenSubTypeMath]),
              panic |-> FALSE]
      ELSE [tokens2 |-> SetCurrent(tk, [token EXCEPT !.TType = TokenTypeNoop]),
            panic |-> FALSE]

\* The residual infix operators; token.TValue[0:1] panics on an empty value.
InfixSubType(token) ==
  IF token.TValue[1] \in {"<", ">", "="} THEN TokenSubTypeLogical
  ELSE IF token.TValue = <<"&">> THEN TokenSubTypeConcatenation
  ELSE TokenSubTypeMath

\* Mutant: the catch-all Range is forgotten.
OperandSubTypeNoRange(token) ==
  IF ~ParseFloatOK(token.TValue)
    THEN IF token.TValue = <<"T", "R", "U", "E">>
              \/ token.TValue = <<"F", "A", "L", "S", "E">>
           THEN TokenSubTypeLogical
           ELSE NoSubType
    ELSE TokenSubTypeNumber

OperandSubType(token) ==
  IF ~ParseFloatOK(token.TValue)
    THEN IF token.TValue = <<"T", "R", "U", "E">>
              \/ token.TValue = <<"F", "A", "L", "S", "E">>
           THEN TokenSubTypeLogical
           ELSE TokenSubTypeRange
    ELSE TokenSubTypeNumber

\* pull "@" from in front of function names
StripAt(token) ==
  IF Len(token.TValue) > 0 /\ token.TValue[1] = "@"
    THEN [token EXCEPT !.TValue = Tail(@)]
    ELSE token

\* The body of "for tokens2.moveNext()" of the second walk: tk is tokens2
\* after moveNext; the current token is rewritten in place.
DisambiguationWalkBody(tk) ==
  LET token == current(tk)
  IN  IF token = NilToken THEN [tokens2 |-> tk, panic |-> TRUE]
      ELSE IF token.TType = TokenTypeOperatorInfix /\ token.TValue = <<"-">>
        THEN RetypeMinus(tk)
      ELSE IF token.TType = TokenTypeOperatorInfix /\ token.TValue = <<"+">>
        THEN RetypePlus(tk)
      ELSE IF token.TType = TokenTypeOperatorInfix /\ token.TSubType = NoSubType
        THEN IF Len(token.TValue) = 0 THEN [tokens2 |-> tk, panic |-> TRUE]
             ELSE [tokens2 |-> SetCurrent(tk, [token EXCEPT
                                                 !.TSubType = InfixSubType(token)]),
                   panic |-> FALSE]
      ELSE IF token.TType = TokenTypeOperand /\ token.TSubType = NoSubType
        THEN [tokens2 |-> SetCurrent(tk, [token EXCEPT
                                            !.TSubType = OperandSubType(token)]),
              panic |-> FALSE]
      ELSE IF token.TType = TokenTypeFunction
        THEN [tokens2 |-> SetCurrent(tk, StripAt(token)), panic |-> FALSE]
      ELSE [tokens2 |-> tk, panic |-> FALSE]

\* Mutant: the Noop test is forgotten.
CompactionBodyKeepAll(t2, tks) ==
  LET token == current(t2)
  IN  IF token = NilToken THEN [tokens |-> tks, panic |-> TRUE]
      ELSE [tokens |-> addRef(tks, fToken(token.TValue, token.TType,
                                          token.TSubType)),
            panic |-> FALSE]

\* The body of the last walk: t2 is tokens2 after moveNext, tks is tokens.
CompactionBody(t2, tks) ==
  LET token == current(t2)
  IN  IF token = NilToken THEN [tokens |-> tks, panic |-> TRUE]
      ELSE IF token.TType # TokenTypeNoop
        THEN [tokens |-> addRef(tks, fToken(token.TValue, token.TType,
                                            token.TSubType)),
              panic |-> FALSE]
        ELSE [tokens |-> tks, panic |-> FALSE]

\* ------------------------------------------------------- one run of Parse

\* A run is the parser, the two local streams of getTokens and the position.
\*   "scan"   at the head of the scan loop
\*   "walk1"  at the head of the white-space walk
\*   "walk2"  at the head of the disambiguation walk
\*   "walk3"  at the head of the compaction walk
\*   "done"   Parse has returned ps.Tokens.Items
\*   "panic"  the run was ended by a runtime panic
Run(p, t2, tks, at) == [ps |-> p, tokens2 |-> t2, tokens |-> tks, pc |-> at]

\* Parse up to the scan loop: ps.Formula = formula, then the head of getTokens.
ParseCall(p, formula) ==
  Run([p EXCEPT !.Formula = Normalize(formula)], fTokens, fTokens, "scan")

ScanStepRun(m) ==
  LET q == ScanIteration(m.ps)
  IN  [m EXCEPT !.ps = q, !.pc = IF q.Panic THEN "panic" ELSE "scan"]

\* The scan loop has ended: dump the accumulator, tokens2 := fTokens().
FlushRun(m) ==
  [m EXCEPT !.ps = DumpRemaining(m.ps), !.tokens2 = fTokens, !.pc = "walk1"]

WhitespaceStepRun(m) ==
  LET tk == moveNext(m.ps.Tokens)
      r == WhitespaceWalkBody(tk, m.tokens2)
  IN  [m EXCEPT !.ps = [m.ps EXCEPT !.Tokens = tk, !.Panic = r.panic],
                !.tokens2 = r.tokens2,
                !.pc = IF r.panic THEN "panic" ELSE "walk1"]

WhitespaceEndRun(m) == [m EXCEPT !.pc = "walk2"]

DisambiguationStepRun(m) ==
  LET r == DisambiguationWalkBody(moveNext(m.tokens2))
  IN  [m EXCEPT !.ps = [m.ps EXCEPT !.Panic = r.panic],
                !.tokens2 = r.tokens2,
                !.pc = IF r.panic THEN "panic" ELSE "walk2"]

\* tokens2.reset(); tokens := fTokens()
DisambiguationEndRun(m) ==
  [m EXCEPT !.tokens2 = reset(m.tokens2), !.tokens = fTokens, !.pc = "walk3"]

CompactionStepRun(m) ==
  LET t2 == moveNext(m.tokens2)
      r == CompactionBody(t2, m.tokens)
  IN  [m EXCEPT !.ps = [m.ps EXCEPT !.Panic = r.panic],
                !.tokens2 = t2,
                !.tokens = r.tokens,
                !.pc = IF r.panic THEN "panic" ELSE "walk3"]

\* tokens.reset(); return tokens; ps.Tokens = <the returned stream>
ReturnRun(m) ==
  [m EXCEPT !.ps = [m.ps EXCEPT !.Tokens = reset(m.tokens)],
            !.tokens = reset(m.tokens),
            !.pc = "done"]

StepRun(m) ==
  CASE m.pc = "scan" ->
         IF ParserEOF(m.ps) THEN FlushRun(m) ELSE ScanStepRun(m)
    [] m.pc = "walk1" ->
         IF EOF(m.ps.Tokens) THEN WhitespaceEndRun(m) ELSE WhitespaceStepRun(m)
    [] m.pc = "walk2" ->
         IF EOF(m.tokens2) THEN DisambiguationEndRun(m) ELSE DisambiguationStepRun(m)
    [] m.pc = "walk3" ->
         IF EOF(m.tokens2) THEN ReturnRun(m) ELSE CompactionStepRun(m)
    [] OTHER -> m

RECURSIVE Finish(_)
Finish(m) == IF m.pc \in {"done", "panic"} THEN m ELSE Finish(StepRun(m))

\* Parse(formula) on the parser p, run to its end.
ParseOn(p, formula) == Finish(ParseCall(p, formula))

\* Render of the stream Parse left in ps.Tokens.Items.
RenderToken(t) ==
  IF IsPair(t, TokenTypeFunction, TokenSubTypeStart) THEN Append(t.TValue, "(")
  ELSE IF IsPair(t, TokenTypeFunction, TokenSubTypeStop) THEN <<")">>
  ELSE IF IsPair(t, TokenTypeSubexpression, TokenSubTypeStart) THEN <<"(">>
  ELSE IF IsPair(t, TokenTypeSubexpression, TokenSubTypeStop) THEN <<")">>
  ELSE IF IsPair(t, TokenTypeOperand, TokenSubTypeText)
    THEN <<"\"">> \o t.TValue \o <<"\"">>
  ELSE IF IsPair(t, TokenTypeOperatorInfix, TokenSubTypeIntersection) THEN <<" ">>
  ELSE t.TValue

RECURSIVE Render(_)
Render(items) ==
  IF items = <<>> THEN <<>>
  ELSE Render(SubSeq(items, 1, Len(items) - 1)) \o RenderToken(items[Len(items)])

\* ------------------------------------------------------------ the machine

VARIABLES
  ps,          \* the Parser
  tokens2,     \* getTokens' local tokens2
  tokens,      \* getTokens' local tokens
  pc,          \* "idle" before the first call, then the position of the run
  pending,     \* the formulas still to be passed to Parse, in order
  formula,     \* the argument of the call in progress (or of the last one)
  calls,       \* how many times Parse has been called on ps
  normalRead,  \* the characters the scan read with all four mode flags clear
  scanOut      \* ps.Tokens.Items as the scan loop and the flush left it

vars == <<ps, tokens2, tokens, pc, pending, formula, calls, normalRead, scanOut>>

\* One character of every class the scan loop tells apart.
Alphabet ==
  {"\"", "'", "[", "]", "#", "{", "}", ";", " ", "(", ")", ",",
   "+", "-", "=", ">", "%", "@", "A", "1", "E"}

\* Quotes, groups, spaces, a sign and an operand: long enough inputs nest
\* groups, repeat spaces and double quotes.
DeepAlphabet == {"\"", "'", "(", ")", "{", "}", ";", " ", "+", "A"}

ReuseAlphabet == {"\"", "(", " ", "+", "A"}

Formulas(chars, n) == UNION {[1..k -> chars] : k \in 0..n}

InitWith(inputs) ==
  /\ pending \in inputs
  /\ ps = ExcelParser
  /\ tokens2 = fTokens
  /\ tokens = fTokens
  /\ pc = "idle"
  /\ formula = <<>>
  /\ calls = 0
  /\ normalRead = <<>>
  /\ scanOut = <<>>

\* One call of Parse on a fresh parser, for every formula over Alphabet.
Init == InitWith({<<f>> : f \in Formulas(Alphabet, MaxLen)})

\* One call of Parse on a fresh parser, for every formula over DeepAlphabet.
InitDeep == InitWith({<<f>> : f \in Formulas(DeepAlphabet, MaxDeepLen)})

\* Two calls of Parse, one after the other, on the same parser.
InitReuse ==
  InitWith({<<f1, f2>> : f1 \in Formulas(ReuseAlphabet, MaxReuseLen),
                         f2 \in Formulas(ReuseAlphabet, MaxReuseLen)})

\* The worked formulas of the documentation.
Scenarios ==
  { <<"=", "1", "+", "2">>,
    <<"=", "S", "U", "M", "(", "A", "1", ",", "B", "1", ")">>,
    <<"=", "-", "1", ".", "5", "E", "-", "3">>,
    <<"=", "I", "F", "(", "A", "1", ">", "=", "5", ",", "\"", "y", "e", "s", "\"",
      ",", "\"", "n", "o", "\"", ")">>,
    <<"=", "{", "1", ",", "2", ";", "3", ",", "4", "}">>,
    <<"=", "A", "1", ":", "A", "1", "0", " ", "B", "1", ":", "B", "2", "0">> }

\* The formula f with a run of n spaces put in behind its first k characters.
Spaced(f, k, n) ==
  SubSeq(f, 1, k) \o [i \in 1..n |-> " "] \o SubSeq(f, k + 1, Len(f))

\* One call of Parse on a fresh parser, for every worked formula, every
\* formula that one of them starts with, and every worked formula with a run
\* of spaces put in somewhere.
InitScenario ==
  InitWith(UNION {{<<SubSeq(f, 1, k)>> : k \in 0..Len(f)}
                    \cup {<<Spaced(f, k, n)>> : k \in 0..Len(f), n \in 1..MaxRun}
                  : f \in Scenarios})

\* One call of Parse on a fresh parser, for every formula made of a space, a
\* tab, "=", an operand character and a parenthesis.
InitTrim ==
  InitWith({<<f>> : f \in Formulas({" ", "\t", "=", "A", "("}, MaxTrimLen)})

\* One call of Parse on a fresh parser, for every formula made of the
\* grouping characters, the separators, a quote and an operand character, and
\* for the worked formulas.
InitGroup ==
  InitWith({<<f>> : f \in Formulas({"(", ")", "{", "}", ";", ",", "\"", "A"},
                                   MaxGroupLen) \cup Scenarios})

\* One call of Parse on a fresh parser, for every formula made of digits, a
\* point, "E", "e" and the signs, and for the worked formulas.
InitSci ==
  InitWith({<<f>> : f \in Formulas({"1", "0", ".", "E", "e", "+", "-"},
                                   MaxSciLen) \cup Scenarios})

\* One call of Parse on a fresh parser, for every formula made of the double
\* quote and characters that are special outside a text literal.
InitText ==
  InitWith({<<f>> : f \in Formulas({"\"", "+", " ", ",", "(", "#", "{"},
                                   MaxTextLen)})

\* One call of Parse on a fresh parser, for every formula made of the
\* characters that open or close a mode or an array, a parenthesis, a sign, a
\* space and an operand character, and for a quoted sheet name.
InitMode ==
  InitWith({<<f>> : f \in Formulas({"'", "[", "]", "\"", "#", "{", "(", "+",
                                    " ", "A"}, MaxModeLen)
                        \cup {<<"=", "'", "M", "y", " ", "S", "h", "e", "e", "t",
                                 "'", "!", "A", "1">>}})

\* One call of Parse on a fresh parser, for every formula made of the
\* characters of "#N/A", a digit and a sign, and for every error value with
\* an operator and an operand behind it or in front of it.
InitError ==
  InitWith({<<f>> : f \in Formulas({"#", "N", "/", "A", "1", "+"}, MaxErrorLen)
                        \cup {e \o <<"+", "1">> : e \in ErrorLiterals}
                        \cup {<<"1", "+">> \o e : e \in ErrorLiterals}})

\* One call of Parse on a fresh parser, for every formula made of the signs,
\* a postfix operator, an operand character, parentheses, a comma, a single
\* quote and a space, and for "=1++2".
InitSign ==
  InitWith({<<f>> : f \in Formulas({"-", "+", "%", "A", "(", ")", ",", "'", " "},
                                   MaxSignLen)
                        \cup {<<"=", "1", "+", "+", "2">>}})

\* One call of Parse on a fresh parser, for every formula made of the
\* comparison characters, "&", "*", "/", "^", "%", an operand character and a
\* double quote.
InitOps ==
  InitWith({<<f>> : f \in Formulas({"<", ">", "=", "&", "*", "/", "^", "%", "A", "\""},
                                   MaxOpsLen)})

\* One call of Parse on a fresh parser, for every formula made of the
\* characters whose branches move the offset by more than one character (a
\* double quote, "<" and ">", a space) and an operand character.
InitTermination ==
  InitWith({<<f>> : f \in Formulas({"\"", "<", ">", " ", "A"}, MaxTerminationLen)})

Current == Run(ps, tokens2, tokens, pc)

Become(m) ==
  /\ ps' = m.ps
  /\ tokens2' = m.tokens2
  /\ tokens' = m.tokens
  /\ pc' = m.pc

Normal(p) == ~p.InString /\ ~p.InPath /\ ~p.InRange /\ ~p.InError

Parse ==
  /\ pc \in {"idle", "done"}
  /\ pending # <<>>
  /\ Become(ParseCall(ps, Head(pending)))
  /\ formula' = Head(pending)
  /\ pending' = Tail(pending)
  /\ calls' = calls + 1
  /\ normalRead' = <<>>
  /\ scanOut' = <<>>

ScanStep ==
  /\ pc = "scan"
  /\ ~ParserEOF(ps)
  /\ Become(ScanStepRun(Current))
  /\ normalRead' = IF Normal(ps)
                     THEN normalRead \o SubSeq(ps.Formula, ps.Offset + 1,
                                               ScanStepRun(Current).ps.Offset)
                     ELSE normalRead
  /\ UNCHANGED <<pending, formula, calls, scanOut>>

Flush ==
  /\ pc = "scan"
  /\ ParserEOF(ps)
  /\ Become(FlushRun(Current))
  /\ scanOut' = FlushRun(Current).ps.Tokens.Items
  /\ UNCHANGED <<pending, formula, calls, normalRead>>

WhitespaceStep ==
  /\ pc = "walk1"
  /\ ~EOF(ps.Tokens)
  /\ Become(WhitespaceStepRun(Current))
  /\ UNCHANGED <<pending, formula, calls, normalRead, scanOut>>

WhitespaceEnd ==
  /\ pc = "walk1"
  /\ EOF(ps.Tokens)
  /\ Become(WhitespaceEndRun(Current))
  /\ UNCHANGED <<pending, formula, calls, normalRead, scanOut>>

DisambiguationStep ==
  /\ pc = "walk2"
  /\ ~EOF(tokens2)
  /\ Become(DisambiguationStepRun(Current))
  /\ UNCHANGED <<pending, formula, calls, normalRead, scanOut>>

DisambiguationEnd ==
  /\ pc = "walk2"
  /\ EOF(tokens2)
  /\ Become(DisambiguationEndRun(Current))
  /\ UNCHANGED <<pending, formula, calls, normalRead, scanOut>>

CompactionStep ==
  /\ pc = "walk3"
  /\ ~EOF(tokens2)
  /\ Become(CompactionStepRun(Current))
  /\ UNCHANGED <<pending, formula, calls, normalRead, scanOut>>

Return ==
  /\ pc = "walk3"
  /\ EOF(tokens2)
  /\ Become(ReturnRun(Current))
  /\ UNCHANGED <<pending, formula, calls, normalRead, scanOut>>

Next ==
  \/ Parse
  \/ ScanStep
  \/ Flush
  \/ WhitespaceStep
  \/ WhitespaceEnd
  \/ DisambiguationStep
  \/ DisambiguationEnd
  \/ CompactionStep
  \/ Return

Spec == Init /\ [][Next]_vars

SpecDeep == InitDeep /\ [][Next]_vars

SpecReuse == InitReuse /\ [][Next]_vars

SpecScenario == InitScenario /\ [][Next]_vars

SpecTrim == InitTrim /\ [][Next]_vars

SpecGroup == InitGroup /\ [][Next]_vars

SpecSci == InitSci /\ [][Next]_vars

SpecText == InitText /\ [][Next]_vars

SpecMode == InitMode /\ [][Next]_vars

SpecError == InitError /\ [][Next]_vars

SpecSign == InitSign /\ [][Next]_vars

SpecOps == InitOps /\ [][Next]_vars

\* Parse runs to its end once called: no step of it waits for anything.
SpecTermination == InitTermination /\ [][Next]_vars /\ WF_vars(Next)

\* ------------------------------------------------------------- shorthands

\* Parse has returned; Returned is the stream it returned.
Done == pc = "done"

Returned == ps.Tokens.Items

\* The call in progress (or just ended) is the first one on this parser.
Fresh == calls = 1

\* What Parse(f) returns on a parser just made by ExcelParser().
FreshParse(f) == ParseOn(ExcelParser, f)

Count(items, P(_)) == Cardinality({i \in 1..Len(items) : P(items[i])})

\* ============================================================ the claims

IsStart(t) == t.TSubType = TokenSubTypeStart

IsStop(t) == t.TSubType = TokenSubTypeStop

IsNoop(t) == t.TType = TokenTypeNoop

NotNoop(t) == t.TType # TokenTypeNoop

IsIntersection(t) == IsPair(t, TokenTypeOperatorInfix, TokenSubTypeIntersection)

CountChar(s, c) == Cardinality({i \in 1..Len(s) : s[i] = c})

\* ---------------------------------------------------------------------- C1

\* C1: a Parser is reusable serially: the second of two calls of Parse on the
\* same Parser returns the stream that Parse returns for that formula on a
\* fresh Parser.  (Stated as the claim states it; the source resets nothing.)
C1_ReuseLikeFresh ==
  (Done /\ calls = 2) =>
    /\ FreshParse(formula).pc = "done"
    /\ Returned = FreshParse(formula).ps.Tokens.Items

\* ---------------------------------------------------------------------- C2

\* C2: on a fresh Parser no run ends in a runtime panic: currentChar is never
\* evaluated at an offset >= the length of the formula (the skip-spaces loop
\* included), no nil previous()/next() is read in the walks, and Offset never
\* passes the end of the formula.
C2_NeverFails ==
  Fresh =>
    /\ pc # "panic"
    /\ ~ps.Panic
    /\ ps.Offset <= Len(ps.Formula)

\* A run in which the skip-spaces loop stepped over a second space and the
\* white-space walk read both neighbours of the Whitespace token.
C2_Witness ==
  /\ Done
  /\ Fresh
  /\ \E i \in 1..(Len(normalRead) - 1) :
       normalRead[i] = Whitespace /\ normalRead[i + 1] = Whitespace
  /\ \E j \in 1..Len(Returned) : IsIntersection(Returned[j])

\* ---------------------------------------------------------------------- C3

ModeFlags(p) ==
  {f \in {"InString", "InPath", "InRange", "InError"} : p[f]}

\* C3: at every point of the run at most one of InString, InPath, InRange,
\* InError is set, and a step that sets a flag starts with all four clear.
C3_ModesExclusive ==
  /\ [](Cardinality(ModeFlags(ps)) <= 1)
  /\ [][ModeFlags(ps') \ ModeFlags(ps) # {} => ModeFlags(ps) = {}]_vars

\* A run that has left a text literal and is now inside "[".
C3_Witness ==
  /\ pc = "scan"
  /\ ps.InRange
  /\ \E i \in 1..Len(ps.Tokens.Items) :
       IsPair(ps.Tokens.Items[i], TokenTypeOperand, TokenSubTypeText)

\* ---------------------------------------------------------------------- C4

Balanced(read) ==
  /\ CountChar(read, ParenOpen) = CountChar(read, ParenClose)
  /\ CountChar(read, BraceOpen) = CountChar(read, BraceClose)

\* C4: when the parentheses and the braces read outside string, path, range
\* and error contexts are balanced, the returned stream has as many Start
\* tokens as Stop tokens.
C4_GroupBalance ==
  (Done /\ Fresh /\ Balanced(normalRead)) =>
    Count(Returned, IsStart) = Count(Returned, IsStop)

\* A balanced formula with a parenthesis pair and an array literal.
C4_Witness ==
  /\ Done
  /\ Fresh
  /\ Balanced(normalRead)
  /\ CountChar(normalRead, ParenOpen) >= 1
  /\ CountChar(normalRead, BraceOpen) >= 1
  /\ Count(Returned, IsStart) >= 3

\* ---------------------------------------------------------------------- C5

LegalPair(t) ==
  \/ /\ t.TType = TokenTypeOperand
     /\ t.TSubType \in {TokenSubTypeText, TokenSubTypeNumber, TokenSubTypeLogical,
                        TokenSubTypeRange, TokenSubTypeError}
  \/ /\ t.TType \in {TokenTypeFunction, TokenTypeSubexpression}
     /\ t.TSubType \in {TokenSubTypeStart, TokenSubTypeStop}
  \/ /\ t.TType = TokenTypeOperatorInfix
     /\ t.TSubType \in {TokenSubTypeMath, TokenSubTypeLogical,
                        TokenSubTypeConcatenation, TokenSubTypeIntersection,
                        TokenSubTypeUnion}
  \/ /\ t.TType \in {TokenTypeOperatorPrefix, TokenTypeOperatorPostfix,
                     TokenTypeArgument, TokenTypeUnknown}
     /\ t.TSubType = NoSubType

\* C5: every token Parse returns on a fresh Parser has a legal (type, subtype)
\* pair.
C5_LegalPairs ==
  (Done /\ Fresh) => \A i \in 1..Len(Returned) : LegalPair(Returned[i])

\* A returned stream with an operand that left the scan without a subtype and
\* was classified Range, next to an infix operator.
C5_Witness ==
  /\ Done
  /\ Fresh
  /\ \E i \in 1..Len(Returned) :
       IsPair(Returned[i], TokenTypeOperand, TokenSubTypeRange)
  /\ \E i \in 1..Len(Returned) : Returned[i].TType = TokenTypeOperatorInfix
  /\ \E i \in 1..Len(scanOut) :
       IsPair(scanOut[i], TokenTypeOperand, NoSubType)

\* ---------------------------------------------------------------------- C6

\* C6: no returned token has type Noop; the compaction removes exactly the
\* Noop tokens of the disambiguated stream, and each of them is a "+".
C6_NoNoop ==
  Done =>
    /\ \A i \in 1..Len(Returned) : Returned[i].TType # TokenTypeNoop
    /\ Returned = SelectSeq(tokens2.Items, NotNoop)
    /\ \A i \in 1..Len(tokens2.Items) :
         IsNoop(tokens2.Items[i]) => tokens2.Items[i].TValue = <<"+">>

\* A "+" was demoted to Noop and removed, and something was returned.
C6_Witness ==
  /\ Done
  /\ Count(tokens2.Items, IsNoop) >= 1
  /\ Returned # <<>>

\* ---------------------------------------------------------------------- C7

OperandOrStop(t) ==
  \/ t.TType = TokenTypeOperand
  \/ t.TType \in {TokenTypeFunction, TokenTypeSubexpression}
     /\ t.TSubType = TokenSubTypeStop

OperandOrStart(t) ==
  \/ t.TType = TokenTypeOperand
  \/ t.TType \in {TokenTypeFunction, TokenTypeSubexpression}
     /\ t.TSubType = TokenSubTypeStart

\* C7: every returned Intersection token has a predecessor that is an Operand
\* or a Function/Subexpression Stop and a successor that is an Operand or a
\* Function/Subexpression Start; it is neither the first nor the last token.
C7_IntersectionNeighbours ==
  (Done /\ Fresh) =>
    \A i \in 1..Len(Returned) :
      IsIntersection(Returned[i]) =>
        /\ 1 < i
        /\ i < Len(Returned)
        /\ OperandOrStop(Returned[i - 1])
        /\ OperandOrStart(Returned[i + 1])

\* An Intersection between a closed group and an opened one.
C7_Witness ==
  /\ Done
  /\ Fresh
  /\ \E i \in 2..(Len(Returned) - 1) :
       /\ IsIntersection(Returned[i])
       /\ IsStop(Returned[i - 1])
       /\ IsStart(Returned[i + 1])

\* ---------------------------------------------------------------------- C8

\* Every space of the formula was read outside the quoted contexts and became
\* an Intersection token of its own.
NoRedundantWhitespace ==
  /\ \A i \in 1..Len(formula) : formula[i] \in SpaceChars => formula[i] = Whitespace
  /\ CountChar(formula, Whitespace) = Count(Returned, IsIntersection)

\* The scan ended outside every quoted context with every group closed, and
\* flushed nothing as Unknown.
WellFormed ==
  /\ Normal(ps)
  /\ ps.TokenStack.Items = <<>>
  /\ Balanced(normalRead)
  /\ \A i \in 1..Len(Returned) : Returned[i].TType # TokenTypeUnknown

\* C8: for a formula without redundant white space, Render of the returned
\* stream, parsed on another fresh Parser, gives the same stream.  (Stated as
\* the claim states it, here for well-formed formulas only; Render does not
\* quote what the scan unquoted.)
C8_RenderRoundTrip ==
  (Done /\ Fresh /\ NoRedundantWhitespace /\ WellFormed) =>
    /\ FreshParse(Render(Returned)).pc = "done"
    /\ FreshParse(Render(Returned)).ps.Tokens.Items = Returned

\* ---------------------------------------------------------------------- C9

\* C9: no returned Function token has a value that starts with "@".  (Stated
\* as the claim states it; the walk strips one "@" only.)
C9_NoLeadingAt ==
  Done =>
    \A i \in 1..Len(Returned) :
      Returned[i].TType = TokenTypeFunction =>
        (Returned[i].TValue = <<>> \/ Returned[i].TValue[1] # "@")

\* --------------------------------------------------------------------- C10

EqualsToken(subType) == fToken(<<"=">>, TokenTypeOperatorInfix, subType)

\* C10 as claimed: for every non-empty formula the returned stream starts with
\* the leading "=" as an (OperatorInfix, Logical) token.
C10_LeadingEqualsReturned ==
  (Done /\ Fresh /\ Normalize(formula) # <<>>) =>
    /\ Returned # <<>>
    /\ Returned[1] = EqualsToken(TokenSubTypeLogical)

\* C10 as amended: the leading "=" is not stripped before the scan: for every
\* non-empty formula it is the first token of the scan output, an
\* OperatorInfix without subtype; on a fresh Parser the white-space walk
\* starts behind it, so no later stream holds a token for it.
C10_LeadingEqualsScanned ==
  (Fresh /\ pc \in {"walk1", "walk2", "walk3", "done"} /\ Normalize(formula) # <<>>) =>
    /\ scanOut # <<>>
    /\ scanOut[1] = EqualsToken(NoSubType)
    /\ pc = "walk1" => Len(tokens2.Items) <= ps.Tokens.Index
    /\ Len(tokens2.Items) <= Len(scanOut) - 1
    /\ Done => Len(Returned) <= Len(scanOut) - 1

\* A run that returned every token of the scan output but the leading "=".
C10_Witness ==
  /\ Done
  /\ Fresh
  /\ Len(scanOut) >= 3
  /\ Len(Returned) = Len(scanOut) - 1

\* --------------------------------------------------------------------- C11

IsEqualsSign(t) == t.TType = TokenTypeOperatorInfix /\ t.TValue = <<"=">>

\* C11: on a fresh Parser the returned stream holds no token for the leading
\* "=": it has one "=" operator less than the scan output; "=1+2" returns
\* exactly (1, Operand, Number), (+, OperatorInfix, Math), (2, Operand, Number)
\* and "=SUM(A1,B1)" returns a stream that starts with (SUM, Function, Start).
C11_NoLeadingEqualsToken ==
  (Done /\ Fresh) =>
    /\ scanOut # <<>> =>
         Count(Returned, IsEqualsSign) = Count(scanOut, IsEqualsSign) - 1
    /\ formula = <<"=", "1", "+", "2">> =>
         Returned = << fToken(<<"1">>, TokenTypeOperand, TokenSubTypeNumber),
                       fToken(<<"+">>, TokenTypeOperatorInfix, TokenSubTypeMath),
                       fToken(<<"2">>, TokenTypeOperand, TokenSubTypeNumber) >>
    /\ formula = <<"=", "S", "U", "M", "(", "A", "1", ",", "B", "1", ")">> =>
         /\ Len(Returned) = 5
         /\ Returned[1] = fToken(<<"S", "U", "M">>, TokenTypeFunction,
                                 TokenSubTypeStart)

\* "=1+2" has been parsed and three tokens were returned.
C11_Witness ==
  /\ Done
  /\ Fresh
  /\ formula = <<"=", "1", "+", "2">>
  /\ Len(scanOut) = 4
  /\ Len(Returned) = 3

\* --------------------------------------------------------------------- C12

\* The formula without the white space around it.
Inked(s) == {i \in 1..Len(s) : s[i] \notin SpaceChars}

Body(s) ==
  IF Inked(s) = {} THEN <<>>
  ELSE SubSeq(s, CHOOSE i \in Inked(s) : \A j \in Inked(s) : i <= j,
                 CHOOSE i \in Inked(s) : \A j \in Inked(s) : j <= i)

\* The white space in front of the formula is made of " " only.
LeadsWithBlanksOnly(s) ==
  \A i \in 1..Len(s) : (\A j \in 1..i : s[j] \in SpaceChars) => s[i] = Whitespace

Paddings == {<<>>, <<" ">>, <<"\t">>, <<" ", "\t">>}

PaddingIgnored ==
  \A a \in Paddings : \A b \in Paddings :
    /\ FreshParse(a \o formula \o b).pc = "done"
    /\ FreshParse(a \o formula \o b).ps.Tokens.Items = Returned

\* C12 as claimed: for every formula F that, trimmed, is non-empty and does
\* not start with "=", Parse(F) returns what Parse("=" + F) returns, and white
\* space around the input never changes the result.
C12_EqualsOptional ==
  (Done /\ Fresh) =>
    /\ (Body(formula) # <<>> /\ Body(formula)[1] # "=") =>
         /\ FreshParse(<<"=">> \o formula).pc = "done"
         /\ FreshParse(<<"=">> \o formula).ps.Tokens.Items = Returned
    /\ PaddingIgnored

\* C12 as amended: for every formula F whose trimmed form T is non-empty and
\* does not start with "=", Parse(F) returns what Parse("=" + T) returns, and
\* what Parse("=" + F) returns when the white space in front of F is made of
\* " " only; white space around the input never changes the result.
C12_EqualsOptionalTrimmed ==
  (Done /\ Fresh) =>
    /\ (Body(formula) # <<>> /\ Body(formula)[1] # "=") =>
         /\ FreshParse(<<"=">> \o Body(formula)).pc = "done"
         /\ FreshParse(<<"=">> \o Body(formula)).ps.Tokens.Items = Returned
         /\ LeadsWithBlanksOnly(formula) =>
              /\ FreshParse(<<"=">> \o formula).pc = "done"
              /\ FreshParse(<<"=">> \o formula).ps.Tokens.Items = Returned
    /\ PaddingIgnored

\* A formula with white space on both sides and no "=" was parsed and
\* returned tokens.
C12_Witness ==
  /\ Done
  /\ Fresh
  /\ formula # <<>>
  /\ formula[1] = Whitespace
  /\ formula[Len(formula)] \in SpaceChars
  /\ Body(formula) # <<>>
  /\ Body(formula)[1] # "="
  /\ Returned # <<>>

\* --------------------------------------------------------------------- C13

\* The input ended inside a string, path, range or error context with a
\* non-empty accumulator (the flags and the accumulator keep their values
\* after the scan).
Unterminated ==
  /\ Fresh
  /\ pc \in {"walk1", "walk2", "walk3", "done"}
  /\ ~Normal(ps)
  /\ ps.Token # <<>>

Last(items) == items[Len(items)]

\* C13 as claimed: when the input ends in a modal context with a non-empty
\* accumulator, the accumulator is emitted as one Operand without subtype, and
\* the returned stream ends with that token as (accumulator, Operand, Range),
\* whatever its text.
C13_UnterminatedIsRange ==
  Unterminated =>
    /\ scanOut # <<>>
    /\ Last(scanOut) = fToken(ps.Token, TokenTypeOperand, NoSubType)
    /\ Done =>
         /\ Returned # <<>>
         /\ Last(Returned) = fToken(ps.Token, TokenTypeOperand, TokenSubTypeRange)

\* C13 as amended: that token is classified by its text like every other
\* operand without subtype: Number when the text parses as a float, Logical
\* when it is TRUE or FALSE, Range otherwise.
C13_UnterminatedIsClassified ==
  Unterminated =>
    /\ scanOut # <<>>
    /\ Last(scanOut) = fToken(ps.Token, TokenTypeOperand, NoSubType)
    /\ Len(scanOut) >= 2
    /\ Done =>
         /\ Returned # <<>>
         /\ Last(Returned).TValue = ps.Token
         /\ Last(Returned).TType = TokenTypeOperand
         /\ Last(Returned).TSubType =
              IF ParseFloatOK(ps.Token) THEN TokenSubTypeNumber
              ELSE IF ps.Token \in {<<"T", "R", "U", "E">>, <<"F", "A", "L", "S", "E">>}
                THEN TokenSubTypeLogical
              ELSE TokenSubTypeRange

\* An unclosed string whose content is a number, returned as a Number, in a
\* run that first passed an operator.
C13_Witness ==
  /\ Done
  /\ Unterminated
  /\ ps.InString
  /\ ParseFloatOK(ps.Token)
  /\ Len(Returned) >= 2
  /\ Last(Returned).TSubType = TokenSubTypeNumber

\* --------------------------------------------------------------------- C14

\* The scan loop is about to read the character c outside every modal
\* context, on a fresh Parser.
ReadsNormally(c) ==
  /\ Fresh
  /\ pc = "scan"
  /\ ~ParserEOF(ps)
  /\ Normal(ps)
  /\ currentChar(ps) = c

\* What a flush of the accumulator appends.
Pending(tokenType) ==
  IF ps.Token = <<>> THEN <<>> ELSE <<fToken(ps.Token, tokenType, NoSubType)>>

FunctionStop == fToken(<<>>, TokenTypeFunction, TokenSubTypeStop)

\* The step ended at the head of the scan loop, one character further, still
\* outside every modal context and with an empty accumulator.
ContinuesAfterOne ==
  /\ pc' = "scan"
  /\ ps'.Offset = ps.Offset + 1
  /\ Normal(ps')
  /\ ps'.Token = <<>>
  /\ ~ps'.Panic

\* C14: a ")" read in normal mode with an empty grouping stack appends, after
\* the flush of the accumulator, exactly one ("", Function, Stop) and leaves
\* the stack empty; a "}" appends two; the scan goes on with the next
\* character.
C14_PopEmpty ==
  [][ /\ (ReadsNormally(ParenClose) /\ ps.TokenStack.Items = <<>>) =>
          /\ ps'.Tokens.Items =
               ps.Tokens.Items \o Pending(TokenTypeOperand) \o <<FunctionStop>>
          /\ ps'.TokenStack.Items = <<>>
          /\ ContinuesAfterOne
      /\ (ReadsNormally(BraceClose) /\ ps.TokenStack.Items = <<>>) =>
          /\ ps'.Tokens.Items =
               ps.Tokens.Items \o Pending(TokenTypeOperand)
                               \o <<FunctionStop, FunctionStop>>
          /\ ps'.TokenStack.Items = <<>>
          /\ ContinuesAfterOne ]_vars

\* A ")" and then a "}" were read with an empty grouping stack, and the scan
\* has a character left to read.
C14_Witness ==
  /\ Fresh
  /\ pc = "scan"
  /\ ~ParserEOF(ps)
  /\ ps.TokenStack.Items = <<>>
  /\ normalRead = <<"=", ")", "}">>
  /\ ps.Tokens.Items = <<EqualsToken(NoSubType), FunctionStop, FunctionStop,
                         FunctionStop>>

\* --------------------------------------------------------------------- C15

RangeOperand(value) == fToken(value, TokenTypeOperand, TokenSubTypeRange)

A1A10 == <<"A", "1", ":", "A", "1", "0">>

B1B20 == <<"B", "1", ":", "B", "2", "0">>

\* "=A1:A10 B1:B20" with a run of one or more spaces between the operands.
IsRangePair(f) ==
  /\ Len(f) > 13
  /\ SubSeq(f, 1, 7) = <<"=">> \o A1A10
  /\ SubSeq(f, Len(f) - 5, Len(f)) = B1B20
  /\ \A i \in 8..(Len(f) - 6) : f[i] = Whitespace

\* C15 as claimed: "=A1:A10 B1:B20" returns exactly (A1:A10, Operand, Range),
\* (" ", OperatorInfix, Intersection), (B1:B20, Operand, Range): an
\* Intersection made from a run of spaces has a single space as its value.
C15_IntersectionIsSpace ==
  (Done /\ Fresh) =>
    /\ IsRangePair(formula) =>
         Returned = << RangeOperand(A1A10),
                       fToken(<<" ">>, TokenTypeOperatorInfix,
                              TokenSubTypeIntersection),
                       RangeOperand(B1B20) >>
    /\ \A i \in 1..Len(Returned) :
         IsIntersection(Returned[i]) => Returned[i].TValue = <<" ">>

\* C15 as amended: the three tokens are returned, and the value of the
\* Intersection token is the empty string, however long the run of spaces.
C15_IntersectionIsEmpty ==
  (Done /\ Fresh) =>
    /\ IsRangePair(formula) =>
         Returned = << RangeOperand(A1A10),
                       fToken(<<>>, TokenTypeOperatorInfix,
                              TokenSubTypeIntersection),
                       RangeOperand(B1B20) >>
    /\ \A i \in 1..Len(Returned) :
         IsIntersection(Returned[i]) => Returned[i].TValue = <<>>

\* The two ranges with two spaces between them were parsed.
C15_Witness ==
  /\ Done
  /\ Fresh
  /\ IsRangePair(formula)
  /\ Len(formula) = 15
  /\ Count(Returned, IsIntersection) = 1

\* --------------------------------------------------------------------- C16

ArgumentComma == fToken(<<",">>, TokenTypeArgument, NoSubType)

UnionComma == fToken(<<",">>, TokenTypeOperatorInfix, TokenSubTypeUnion)

\* The innermost open group is a function, an array or an array row.
InnermostIsFunction ==
  /\ ps.TokenStack.Items # <<>>
  /\ Last(ps.TokenStack.Items).TType = TokenTypeFunction

\* C16: a "," read in normal mode appends, after the flush of the
\* accumulator, (",", Argument, "") when the innermost open group has type
\* Function and (",", OperatorInfix, Union) when it is a Subexpression or no
\* group is open; the grouping stack is left as it was.
C16_CommaByInnermostGroup ==
  [][ ReadsNormally(Comma) =>
        /\ ps'.Tokens.Items =
             ps.Tokens.Items \o Pending(TokenTypeOperand)
               \o <<IF InnermostIsFunction THEN ArgumentComma ELSE UnionComma>>
        /\ ps'.TokenStack = ps.TokenStack
        /\ ContinuesAfterOne ]_vars

\* A "," was read inside a subexpression that is inside a function, and came
\* out as a Union.
C16_Witness ==
  /\ Fresh
  /\ pc = "scan"
  /\ Len(ps.TokenStack.Items) = 2
  /\ ps.TokenStack.Items[1].TType = TokenTypeFunction
  /\ ps.TokenStack.Items[2].TType = TokenTypeSubexpression
  /\ Last(ps.Tokens.Items) = UnionComma

\* --------------------------------------------------------------------- C17

Front(items) == SubSeq(items, 1, Len(items) - 1)

\* The Start tokens of a stream that no later Stop has matched, in opening
\* order: a Stop matches the most recent unmatched Start, if there is one.
RECURSIVE Unmatched(_)
Unmatched(items) ==
  IF items = <<>> THEN <<>>
  ELSE IF IsStart(Last(items)) THEN Append(Unmatched(Front(items)), Last(items))
  ELSE IF IsStop(Last(items)) /\ Unmatched(Front(items)) # <<>>
    THEN Front(Unmatched(Front(items)))
  ELSE Unmatched(Front(items))

\* Every Stop that had an unmatched Start before it has an empty value and
\* the type of the most recent of them.
StopsMatchStarts(items) ==
  \A i \in 1..Len(items) :
    (IsStop(items[i]) /\ Unmatched(SubSeq(items, 1, i - 1)) # <<>>) =>
      /\ items[i].TValue = <<>>
      /\ items[i].TType = Last(Unmatched(SubSeq(items, 1, i - 1))).TType

\* C17: at the head of every scan iteration on a fresh Parser the grouping
\* stack is the sequence of the unmatched Start tokens of the output, in
\* opening order; every entry is a Function or Subexpression Start; every Stop
\* emitted from a non-empty stack has an empty value and the type of the most
\* recently opened unmatched Start.
C17_StackIsUnmatchedStarts ==
  (Fresh /\ pc \in {"scan", "walk1"}) =>
    /\ ps.TokenStack.Items = Unmatched(ps.Tokens.Items)
    /\ \A i \in 1..Len(ps.TokenStack.Items) :
         /\ ps.TokenStack.Items[i].TSubType = TokenSubTypeStart
         /\ ps.TokenStack.Items[i].TType \in {TokenTypeFunction,
                                               TokenTypeSubexpression}
    /\ StopsMatchStarts(ps.Tokens.Items)

\* A function inside a subexpression was closed and the subexpression is
\* still open.
C17_Witness ==
  /\ Fresh
  /\ pc = "scan"
  /\ Len(ps.TokenStack.Items) = 1
  /\ ps.TokenStack.Items[1].TType = TokenTypeSubexpression
  /\ Count(ps.Tokens.Items, IsStart) = 2
  /\ Last(ps.Tokens.Items) = FunctionStop

\* --------------------------------------------------------------------- C18

Unprefixed(f) == IF f # <<>> /\ f[1] = "=" THEN Tail(f) ELSE f

\* "{", rows of plain elements separated by "," and ";", "}".
IsArrayLiteral(g) ==
  /\ Len(g) >= 2
  /\ g[1] = BraceOpen
  /\ g[Len(g)] = BraceClose
  /\ \A i \in 2..(Len(g) - 1) : g[i] \in {",", ";", "A", "1", "2", "3", "4"}

IsArrayStart(t) == t = ArrayToken

IsArrayRowStart(t) == t = ArrayRowToken

IsFunctionStop(t) == t = FunctionStop

IsArgumentComma(t) == t = ArgumentComma

IsUnionComma(t) == t = UnionComma

NumberOperand(value) == fToken(value, TokenTypeOperand, TokenSubTypeNumber)

\* C18: an array literal with n rows returns one (ARRAY, Function, Start)
\* in front, n (ARRAYROW, Function, Start), n + 1 ("", Function, Stop), no
\* other Start or Stop, one (",", Argument) for each ";" and each "," and no
\* Union; "{" appends ARRAY and ARRAYROW, ";" appends Stop, Argument and
\* ARRAYROW Start in that order; "={1,2;3,4}" returns the 13 tokens of
\* scenario 5.
C18_ArrayLiteral ==
  /\ []((Done /\ Fresh /\ IsArrayLiteral(Unprefixed(formula))) =>
          /\ Returned[1] = ArrayToken
          /\ Count(Returned, IsArrayStart) = 1
          /\ Count(Returned, IsArrayRowStart) = 1 + CountChar(formula, Semicolon)
          /\ Count(Returned, IsFunctionStop) = 2 + CountChar(formula, Semicolon)
          /\ Count(Returned, IsStart) = 2 + CountChar(formula, Semicolon)
          /\ Count(Returned, IsStop) = 2 + CountChar(formula, Semicolon)
          /\ Count(Returned, IsArgumentComma) =
               CountChar(formula, Semicolon) + CountChar(formula, Comma)
          /\ Count(Returned, IsUnionComma) = 0)
  /\ []((Done /\ Fresh
           /\ formula = <<"=", "{", "1", ",", "2", ";", "3", ",", "4", "}">>) =>
          Returned = << ArrayToken, ArrayRowToken,
                        NumberOperand(<<"1">>), ArgumentComma,
                        NumberOperand(<<"2">>), FunctionStop,
                        ArgumentComma, ArrayRowToken,
                        NumberOperand(<<"3">>), ArgumentComma,
                        NumberOperand(<<"4">>), FunctionStop, FunctionStop >>)
  /\ [][ /\ ReadsNormally(BraceOpen) =>
              /\ ps'.Tokens.Items =
                   ps.Tokens.Items \o Pending(TokenTypeUnknown)
                                   \o <<ArrayToken, ArrayRowToken>>
              /\ ContinuesAfterOne
         /\ (ReadsNormally(Semicolon) /\ InnermostIsFunction) =>
              /\ ps'.Tokens.Items =
                   ps.Tokens.Items \o Pending(TokenTypeOperand)
                     \o <<FunctionStop, ArgumentComma, ArrayRowToken>>
              /\ ContinuesAfterOne ]_vars

\* The array literal of scenario 5 was parsed.
C18_Witness ==
  /\ Done
  /\ Fresh
  /\ formula = <<"=", "{", "1", ",", "2", ";", "3", ",", "4", "}">>
  /\ Len(Returned) = 13
  /\ Count(Returned, IsArrayRowStart) = 2

\* --------------------------------------------------------------------- C19

\* One non-zero digit, then nothing or a "." and one or more digits, then "E".
IsMantissaE(tok) ==
  /\ Len(tok) >= 2
  /\ tok[1] \in {"1", "2", "3", "4", "5", "6", "7", "8", "9"}
  /\ tok[Len(tok)] = "E"
  /\ LET middle == SubSeq(tok, 2, Len(tok) - 1)
     IN  \/ middle = <<>>
         \/ /\ Len(middle) >= 2
            /\ middle[1] = "."
            /\ \A i \in 2..Len(middle) :
                 middle[i] \in {"0", "1", "2", "3", "4", "5", "6", "7", "8", "9"}

\* C19: a "+" or "-" read in normal mode is appended to the accumulator, and
\* nothing is emitted, exactly when the accumulator is one non-zero digit, an
\* optional "." with digits, and "E"; otherwise the accumulator is flushed as
\* Operand and the sign is emitted as OperatorInfix.  "=-1.5E-3" returns
\* exactly (-, OperatorPrefix, ""), (1.5E-3, Operand, Number).
C19_SciNotationGuard ==
  /\ [][ \A c \in {"+", "-"} :
           ReadsNormally(c) =>
             /\ pc' = "scan"
             /\ ps'.Offset = ps.Offset + 1
             /\ Normal(ps')
             /\ IF IsMantissaE(ps.Token)
                  THEN /\ ps'.Token = Append(ps.Token, c)
                       /\ ps'.Tokens = ps.Tokens
                  ELSE /\ ps'.Token = <<>>
                       /\ ps'.Tokens.Items =
                            ps.Tokens.Items \o Pending(TokenTypeOperand)
                              \o <<fToken(<<c>>, TokenTypeOperatorInfix, NoSubType)>>
        ]_vars
  /\ []((Done /\ Fresh
           /\ formula = <<"=", "-", "1", ".", "5", "E", "-", "3">>) =>
          Returned = << fToken(<<"-">>, TokenTypeOperatorPrefix, NoSubType),
                        NumberOperand(<<"1", ".", "5", "E", "-", "3">>) >>)

\* A sign was taken into the accumulator behind a mantissa with a point.
C19_Witness ==
  /\ Fresh
  /\ pc = "scan"
  /\ Len(ps.Token) >= 5
  /\ ps.Token[2] = "."
  /\ Last(ps.Token) \in {"+", "-"}
  /\ IsMantissaE(Front(ps.Token))

\* --------------------------------------------------------------------- C20

\* Every double quote of the body is one of a pair of adjacent quotes.
RECURSIVE QuotesDoubled(_)
QuotesDoubled(body) ==
  IF body = <<>> THEN TRUE
  ELSE IF body[1] # QuoteDouble THEN QuotesDoubled(Tail(body))
  ELSE /\ Len(body) >= 2
       /\ body[2] = QuoteDouble
       /\ QuotesDoubled(Tail(Tail(body)))

\* The body with each pair of quotes replaced by one quote.
RECURSIVE Collapsed(_)
Collapsed(body) ==
  IF body = <<>> THEN <<>>
  ELSE IF body[1] # QuoteDouble THEN <<body[1]>> \o Collapsed(Tail(body))
  ELSE <<QuoteDouble>> \o Collapsed(Tail(Tail(body)))

\* The formula is one text literal: a quote, a body, a quote.
IsTextLiteral(f) ==
  /\ Len(f) >= 2
  /\ f[1] = QuoteDouble
  /\ f[Len(f)] = QuoteDouble
  /\ QuotesDoubled(SubSeq(f, 2, Len(f) - 1))

\* The character behind the current one, "" at the end of the formula.
Following ==
  IF ps.Offset + 2 <= Len(ps.Formula) THEN ps.Formula[ps.Offset + 2] ELSE ""

\* C20: inside a text literal a quote followed by a quote appends one quote
\* to the accumulator and advances by 2; a quote not followed by a quote
\* clears InString and emits exactly one (accumulator, Operand, Text), also
\* for an empty accumulator; every other character is appended and nothing is
\* emitted.  A formula that is one text literal returns one Text token whose
\* value is the body with each doubled quote collapsed to one.
C20_TextLiteral ==
  /\ [][ (Fresh /\ pc = "scan" /\ ~ParserEOF(ps) /\ ps.InString) =>
           /\ pc' = "scan"
           /\ ps'.TokenStack = ps.TokenStack
           /\ IF currentChar(ps) = QuoteDouble /\ Following = QuoteDouble
                THEN /\ ps'.Token = Append(ps.Token, QuoteDouble)
                     /\ ps'.Offset = ps.Offset + 2
                     /\ ps'.Tokens = ps.Tokens
                     /\ ps'.InString
                ELSE IF currentChar(ps) = QuoteDouble
                THEN /\ ps'.Token = <<>>
                     /\ ps'.Offset = ps.Offset + 1
                     /\ ps'.Tokens.Items =
                          Append(ps.Tokens.Items,
                                 fToken(ps.Token, TokenTypeOperand, TokenSubTypeText))
                     /\ Normal(ps')
                ELSE /\ ps'.Token = Append(ps.Token, currentChar(ps))
                     /\ ps'.Offset = ps.Offset + 1
                     /\ ps'.Tokens = ps.Tokens
                     /\ ps'.InString
        ]_vars
  /\ []((Done /\ Fresh /\ IsTextLiteral(formula)) =>
          Returned = << fToken(Collapsed(SubSeq(formula, 2, Len(formula) - 1)),
                               TokenTypeOperand, TokenSubTypeText) >>)

\* A text literal whose body is one doubled quote returned one quote.
C20_Witness ==
  /\ Done
  /\ Fresh
  /\ formula = <<"\"", "\"", "\"", "\"">>
  /\ Returned = <<fToken(<<"\"">>, TokenTypeOperand, TokenSubTypeText)>>

\* --------------------------------------------------------------------- C21

\* The formula is "[", a body without "]", "]".
IsBracketed(f) ==
  /\ Len(f) >= 2
  /\ f[1] = BracketOpen
  /\ f[Len(f)] = BracketClose
  /\ \A i \in 2..(Len(f) - 1) : f[i] # BracketClose

\* C21: a scan step taken while InPath or InRange is set emits no token,
\* whatever the character: in a path a doubled "'" appends one "'" and
\* advances by 2, a single "'" only clears InPath, every other character is
\* appended; in a range every character is appended, "]" included, and "]"
\* clears InRange.  "='My Sheet'!A1" returns the single Operand My Sheet!A1
\* and a bracketed formula returns one Operand with both brackets.
C21_PathRangeEmitNothing ==
  /\ [][ (Fresh /\ pc = "scan" /\ ~ParserEOF(ps) /\ (ps.InPath \/ ps.InRange)) =>
           /\ pc' = "scan"
           /\ ps'.Tokens = ps.Tokens
           /\ ps'.TokenStack = ps.TokenStack
           /\ ~ps'.InString
           /\ ~ps'.InError
           /\ IF ps.InRange
                THEN /\ ps'.Token = Append(ps.Token, currentChar(ps))
                     /\ ps'.Offset = ps.Offset + 1
                     /\ ps'.InRange = (currentChar(ps) # BracketClose)
                     /\ ~ps'.InPath
                ELSE IF currentChar(ps) = QuoteSingle /\ Following = QuoteSingle
                THEN /\ ps'.Token = Append(ps.Token, QuoteSingle)
                     /\ ps'.Offset = ps.Offset + 2
                     /\ ps'.InPath
                ELSE IF currentChar(ps) = QuoteSingle
                THEN /\ ps'.Token = ps.Token
                     /\ ps'.Offset = ps.Offset + 1
                     /\ Normal(ps')
                ELSE /\ ps'.Token = Append(ps.Token, currentChar(ps))
                     /\ ps'.Offset = ps.Offset + 1
                     /\ ps'.InPath
        ]_vars
  /\ []((Done /\ Fresh
           /\ formula = <<"=", "'", "M", "y", " ", "S", "h", "e", "e", "t",
                           "'", "!", "A", "1">>) =>
          Returned = <<RangeOperand(<<"M", "y", " ", "S", "h", "e", "e", "t",
                                      "!", "A", "1">>)>>)
  /\ []((Done /\ Fresh /\ IsBracketed(formula)) =>
          Returned = <<RangeOperand(formula)>>)

\* A path was closed and the accumulator went on into the next character.
C21_Witness ==
  /\ Fresh
  /\ pc = "scan"
  /\ Normal(ps)
  /\ CountChar(SubSeq(ps.Formula, 1, ps.Offset), QuoteSingle) = 2
  /\ Len(ps.Token) = 2
  /\ ps.Tokens.Items = <<EqualsToken(NoSubType)>>

\* --------------------------------------------------------------------- C22

IsUnknown(t) == t.TType = TokenTypeUnknown

\* The characters whose branch flushes the accumulator as Unknown.
UnknownFlushers == {QuoteDouble, QuoteSingle, ErrorStart, BraceOpen}

\* C22: a '"', "'", "#" or "{" read in normal mode with a non-empty
\* accumulator emits exactly one (accumulator, Unknown, "") before the mode or
\* the array is entered; "[" is appended to the accumulator and flushes
\* nothing; no other step of the scan, and no later walk, adds an Unknown
\* token.  Every Unknown token has a non-empty value and an empty subtype.
C22_UnknownOnlyAtOpenings ==
  /\ [][ /\ \A c \in UnknownFlushers :
              ReadsNormally(c) =>
                /\ SubSeq(ps'.Tokens.Items, 1,
                          Len(ps.Tokens.Items) + Len(Pending(TokenTypeUnknown))) =
                     ps.Tokens.Items \o Pending(TokenTypeUnknown)
                /\ Len(ps'.Tokens.Items) =
                     Len(ps.Tokens.Items) + Len(Pending(TokenTypeUnknown))
                       + (IF c = BraceOpen THEN 2 ELSE 0)
                /\ ps'.Token = IF c = ErrorStart THEN <<ErrorStart>> ELSE <<>>
                /\ ps'.InString = (c = QuoteDouble)
                /\ ps'.InPath = (c = QuoteSingle)
                /\ ps'.InError = (c = ErrorStart)
                /\ ~ps'.InRange
                /\ ps'.Offset = ps.Offset + 1
         /\ ReadsNormally(BracketOpen) =>
                /\ ps'.Tokens = ps.Tokens
                /\ ps'.Token = Append(ps.Token, BracketOpen)
                /\ ps'.InRange
                /\ ps'.Offset = ps.Offset + 1
         /\ (Fresh /\ pc \in {"scan", "walk1"} /\ pc' \in {"scan", "walk1"}) =>
                Count(ps'.Tokens.Items, IsUnknown) =
                  Count(ps.Tokens.Items, IsUnknown)
                    + (IF /\ pc = "scan"
                          /\ ~ParserEOF(ps)
                          /\ Normal(ps)
                          /\ currentChar(ps) \in UnknownFlushers
                          /\ ps.Token # <<>>
                         THEN 1 ELSE 0)
        ]_vars
  /\ []((Fresh /\ pc # "idle") =>
          /\ \A i \in 1..Len(ps.Tokens.Items) :
               IsUnknown(ps.Tokens.Items[i]) =>
                 /\ ps.Tokens.Items[i].TValue # <<>>
                 /\ ps.Tokens.Items[i].TSubType = NoSubType
          /\ Count(tokens2.Items, IsUnknown) <= Count(scanOut, IsUnknown)
          /\ Done => Count(Returned, IsUnknown) = Count(scanOut, IsUnknown))

\* Two accumulators were flushed as Unknown, one in front of an array and
\* one in front of a text literal, and both were returned.
C22_Witness ==
  /\ Done
  /\ Fresh
  /\ Count(Returned, IsUnknown) = 2
  /\ Count(Returned, IsArrayStart) = 1
  /\ ps.InString

\* --------------------------------------------------------------------- C23

\* #NULL!, #DIV/0!, #VALUE!, #REF!, #NAME?, #NUM!, #N/A
ErrorValues ==
  { <<"#", "N", "U", "L", "L", "!">>, <<"#", "D", "I", "V", "/", "0", "!">>,
    <<"#", "V", "A", "L", "U", "E", "!">>, <<"#", "R", "E", "F", "!">>,
    <<"#", "N", "A", "M", "E", "?">>, <<"#", "N", "U", "M", "!">>,
    <<"#", "N", "/", "A">> }

IsErrorOperand(t) == IsPair(t, TokenTypeOperand, TokenSubTypeError)

\* C23: after "#" has set InError every character is appended; at the first
\* step where the accumulator equals one of the seven error values one
\* (accumulator, Operand, Error) is emitted and InError and the accumulator
\* are cleared; until then InError stays set and the scan loop emits nothing.
\* No other step emits an Error operand, so every Error operand, in the scan
\* output and in the returned stream, has one of the seven values.
C23_ErrorLiterals ==
  /\ [][ /\ (Fresh /\ pc = "scan" /\ ~ParserEOF(ps) /\ ps.InError) =>
              /\ pc' = "scan"
              /\ ps'.Offset = ps.Offset + 1
              /\ ps'.TokenStack = ps.TokenStack
              /\ IF Append(ps.Token, currentChar(ps)) \in ErrorValues
                   THEN /\ ps'.Tokens.Items =
                             Append(ps.Tokens.Items,
                                    fToken(Append(ps.Token, currentChar(ps)),
                                           TokenTypeOperand, TokenSubTypeError))
                        /\ ps'.Token = <<>>
                        /\ Normal(ps')
                   ELSE /\ ps'.Tokens = ps.Tokens
                        /\ ps'.Token = Append(ps.Token, currentChar(ps))
                        /\ ps'.InError
         /\ (Fresh /\ pc \in {"scan", "walk1"} /\ pc' \in {"scan", "walk1"}
                /\ ~(pc = "scan" /\ ps.InError)) =>
              Count(ps'.Tokens.Items, IsErrorOperand) =
                Count(ps.Tokens.Items, IsErrorOperand)
        ]_vars
  /\ []((Fresh /\ pc # "idle") =>
          /\ \A i \in 1..Len(ps.Tokens.Items) :
               IsErrorOperand(ps.Tokens.Items[i]) =>
                 ps.Tokens.Items[i].TValue \in ErrorValues
          /\ \A i \in 1..Len(tokens2.Items) :
               IsErrorOperand(tokens2.Items[i]) =>
                 tokens2.Items[i].TValue \in ErrorValues
          /\ Done => Count(Returned, IsErrorOperand) = Count(scanOut, IsErrorOperand))

\* #DIV/0! was returned as an Error operand in front of an operator and a
\* number.
C23_Witness ==
  /\ Done
  /\ Fresh
  /\ Normal(ps)
  /\ Len(Returned) = 3
  /\ Returned[1] = fToken(<<"#", "D", "I", "V", "/", "0", "!">>,
                          TokenTypeOperand, TokenSubTypeError)

\* --------------------------------------------------------------------- C24

IsWhitespaceToken(t) == t.TType = TokenTypeWhitespace

\* The number of maximal runs of spaces in the characters read.
SpaceRuns(read) ==
  Cardinality({i \in 1..Len(read) :
                 read[i] = Whitespace /\ (i = 1 \/ read[i - 1] # Whitespace)})

\* The Whitespace token at position i of the scan output is inside the
\* output, behind an Operand or a Stop and in front of an Operand or a Start.
BecomesIntersection(out, i) ==
  /\ 1 < i
  /\ i < Len(out)
  /\ OperandOrStop(out[i - 1])
  /\ OperandOrStart(out[i + 1])

\* What the tokens of the scan output up to position n leave in the resolved
\* stream (the walk starts behind the first token).
RECURSIVE Resolved(_, _)
Resolved(out, n) ==
  IF n < 2 THEN <<>>
  ELSE IF ~IsWhitespaceToken(out[n]) THEN Append(Resolved(out, n - 1), out[n])
  ELSE IF BecomesIntersection(out, n)
    THEN Append(Resolved(out, n - 1),
                fToken(out[n].TValue, TokenTypeOperatorInfix,
                       TokenSubTypeIntersection))
  ELSE Resolved(out, n - 1)

\* C24: every run of spaces read in normal mode leaves exactly one Whitespace
\* token in the scan output; the white-space walk turns that token into one
\* (OperatorInfix, Intersection) exactly when it is neither first nor last in
\* the scan output, its predecessor there is an Operand or a Function or
\* Subexpression Stop and its successor an Operand or a Function or
\* Subexpression Start, and into nothing otherwise, and copies every other
\* token.  No returned token has type Whitespace.
C24_WhitespaceResolution ==
  Fresh =>
    /\ pc \in {"walk1", "walk2", "walk3", "done"} =>
         Count(scanOut, IsWhitespaceToken) = SpaceRuns(normalRead)
    /\ (pc = "walk1" /\ ps.Tokens.Index >= 0) =>
         tokens2.Items = Resolved(scanOut, ps.Tokens.Index + 1)
    /\ (pc = "walk2" /\ tokens2.Index = -1) =>
         tokens2.Items = Resolved(scanOut, Len(scanOut))
    /\ pc \in {"walk2", "walk3", "done"} =>
         /\ Count(tokens2.Items, IsWhitespaceToken) = 0
         /\ Count(tokens2.Items, IsIntersection) =
              Cardinality({i \in 1..Len(scanOut) :
                             /\ IsWhitespaceToken(scanOut[i])
                             /\ BecomesIntersection(scanOut, i)})
    /\ Done =>
         /\ Count(Returned, IsWhitespaceToken) = 0
         /\ Count(Returned, IsIntersection) = Count(tokens2.Items, IsIntersection)

\* A run of two spaces between a closed group and an operand became one
\* Intersection.
C24_Witness ==
  /\ Done
  /\ Fresh
  /\ CountChar(normalRead, Whitespace) = 2
  /\ Count(scanOut, IsWhitespaceToken) = 1
  /\ Count(Returned, IsIntersection) = 1
  /\ \E i \in 2..Len(Returned) :
       IsIntersection(Returned[i]) /\ IsStop(Returned[i - 1])

\* --------------------------------------------------------------------- C25

\* The white-space-resolved stream of the run.
ResolvedStream == Resolved(scanOut, Len(scanOut))

\* The token was read as the operator c.
IsScannedSign(t, c) ==
  /\ t.TType = TokenTypeOperatorInfix
  /\ t.TSubType = NoSubType
  /\ t.TValue = <<c>>

\* Position i of the resolved stream has a predecessor, and it is an Operand,
\* a postfix operator or the Stop of a function or subexpression.
FollowsValue(i) ==
  /\ i > 1
  /\ \/ ResolvedStream[i - 1].TType \in {TokenTypeOperand, TokenTypeOperatorPostfix}
     \/ /\ ResolvedStream[i - 1].TType \in {TokenTypeFunction, TokenTypeSubexpression}
        /\ ResolvedStream[i - 1].TSubType = TokenSubTypeStop

IsMinus(t) ==
  /\ t.TType \in {TokenTypeOperatorInfix, TokenTypeOperatorPrefix}
  /\ t.TValue = <<"-">>

\* C25: a "-" read as an operator comes out of the disambiguation walk as
\* (-, OperatorInfix, Math) exactly when it is not the first token of the
\* white-space-resolved stream and its predecessor there is an Operand, an
\* OperatorPostfix or a Function or Subexpression Stop, and as
\* (-, OperatorPrefix, "") in every other case; it is returned as it came out.
C25_MinusDisambiguation ==
  (Fresh /\ pc \in {"walk3", "done"}) =>
    /\ Len(tokens2.Items) = Len(ResolvedStream)
    /\ \A i \in 1..Len(ResolvedStream) :
         IF IsScannedSign(ResolvedStream[i], "-")
           THEN tokens2.Items[i] =
                  IF FollowsValue(i)
                    THEN fToken(<<"-">>, TokenTypeOperatorInfix, TokenSubTypeMath)
                    ELSE fToken(<<"-">>, TokenTypeOperatorPrefix, NoSubType)
           ELSE ~IsMinus(tokens2.Items[i])
    /\ Done => SelectSeq(Returned, IsMinus) = SelectSeq(tokens2.Items, IsMinus)

\* A "-" behind a postfix operator was returned as infix Math and a "-"
\* behind it as a prefix.
C25_Witness ==
  /\ Done
  /\ Fresh
  /\ \E i \in 2..(Len(Returned) - 1) :
       /\ Returned[i - 1].TType = TokenTypeOperatorPostfix
       /\ Returned[i] = fToken(<<"-">>, TokenTypeOperatorInfix, TokenSubTypeMath)
       /\ Returned[i + 1] = fToken(<<"-">>, TokenTypeOperatorPrefix, NoSubType)

\* --------------------------------------------------------------------- C26

\* Every (type, subtype) a predecessor can carry.
PredecessorKinds ==
  {TokenTypeNoop, TokenTypeOperand, TokenTypeFunction, TokenTypeSubexpression,
   TokenTypeArgument, TokenTypeOperatorPrefix, TokenTypeOperatorInfix,
   TokenTypeOperatorPostfix, TokenTypeWhitespace, TokenTypeUnknown}
  \X {NoSubType, TokenSubTypeStart, TokenSubTypeStop, TokenSubTypeText,
      TokenSubTypeNumber, TokenSubTypeLogical, TokenSubTypeError,
      TokenSubTypeRange, TokenSubTypeMath, TokenSubTypeConcatenation,
      TokenSubTypeIntersection, TokenSubTypeUnion}

IsPlus(t) ==
  /\ t.TType \in {TokenTypeOperatorInfix, TokenTypeNoop}
  /\ t.TValue = <<"+">>

\* C26: the "+" test accepts a predecessor (type, subtype) exactly when the
\* "-" test accepts it; a "+" read as an operator comes out of the
\* disambiguation walk as (+, OperatorInfix, Math) exactly where a "-" would
\* be infix Math, and as Noop elsewhere; no Noop is returned, the returned
\* "+" tokens are the Math ones, and "=1++2" returns 1, + Math, 2.
C26_PlusDisambiguation ==
  /\ pc = "idle" =>
       \A k \in PredecessorKinds :
         PlusPrevTest(fToken(<<>>, k[1], k[2])) <=> MinusPrevTest(fToken(<<>>, k[1], k[2]))
  /\ (Fresh /\ pc \in {"walk3", "done"}) =>
       /\ Len(tokens2.Items) = Len(ResolvedStream)
       /\ \A i \in 1..Len(ResolvedStream) :
            IF IsScannedSign(ResolvedStream[i], "+")
              THEN tokens2.Items[i] =
                     IF FollowsValue(i)
                       THEN fToken(<<"+">>, TokenTypeOperatorInfix, TokenSubTypeMath)
                       ELSE fToken(<<"+">>, TokenTypeNoop, NoSubType)
              ELSE ~IsNoop(tokens2.Items[i]) /\ ~IsPlus(tokens2.Items[i])
  /\ (Fresh /\ Done) =>
       /\ Returned = SelectSeq(tokens2.Items, LAMBDA t : ~IsNoop(t))
       /\ formula = <<"=", "1", "+", "+", "2">> =>
            Returned = <<NumberOperand(<<"1">>),
                         fToken(<<"+">>, TokenTypeOperatorInfix, TokenSubTypeMath),
                         NumberOperand(<<"2">>)>>

\* "=1++2" was parsed: the second "+" became a Noop and three tokens were
\* returned.
C26_Witness ==
  /\ Done
  /\ Fresh
  /\ formula = <<"=", "1", "+", "+", "2">>
  /\ Count(tokens2.Items, IsNoop) = 1
  /\ Len(Returned) = 3

\* --------------------------------------------------------------------- C27

\* The two characters at the offset are ">=", "<=" or "<>".
AtComparator ==
  /\ ps.Offset + 2 <= Len(ps.Formula)
  /\ \/ ps.Formula[ps.Offset + 1] = ">" /\ ps.Formula[ps.Offset + 2] = "="
     \/ ps.Formula[ps.Offset + 1] = "<" /\ ps.Formula[ps.Offset + 2] \in {"=", ">"}

ResidualOperators == {"<", ">", "=", "&", "*", "/", "^"}

\* The subtype of a residual operator character.
ResidualSubType(c) ==
  IF c \in {"<", ">", "="} THEN TokenSubTypeLogical
  ELSE IF c = "&" THEN TokenSubTypeConcatenation
  ELSE TokenSubTypeMath

IsComparatorToken(t) ==
  /\ t.TType = TokenTypeOperatorInfix
  /\ t.TValue \in {<<">", "=">>, <<"<", "=">>, <<"<", ">">>}

\* C27: ">=", "<=" or "<>" at the offset in normal mode appends the pending
\* Operand and one (two-char, OperatorInfix, Logical) and advances the offset
\* by 2; any other "<", ">", "=", "&", "*", "/" or "^" appends one
\* (char, OperatorInfix, "") and "%" one (%, OperatorPostfix, ""), one
\* character further; the disambiguation walk leaves the comparator and the
\* "%" as they are and gives the single characters Logical, Concatenation
\* or Math; they are returned so.
C27_Operators ==
  /\ [][ /\ (Fresh /\ pc = "scan" /\ ~ParserEOF(ps) /\ Normal(ps) /\ AtComparator) =>
              /\ ps'.Tokens.Items =
                   ps.Tokens.Items \o Pending(TokenTypeOperand)
                     \o <<fToken(<<ps.Formula[ps.Offset + 1], ps.Formula[ps.Offset + 2]>>,
                                 TokenTypeOperatorInfix, TokenSubTypeLogical)>>
              /\ ps'.Offset = ps.Offset + 2
              /\ ps'.Token = <<>>
         /\ \A c \in ResidualOperators :
              (ReadsNormally(c) /\ ~AtComparator) =>
                /\ ps'.Tokens.Items =
                     ps.Tokens.Items \o Pending(TokenTypeOperand)
                       \o <<fToken(<<c>>, TokenTypeOperatorInfix, NoSubType)>>
                /\ ps'.Offset = ps.Offset + 1
                /\ ps'.Token = <<>>
         /\ ReadsNormally("%") =>
                /\ ps'.Tokens.Items =
                     ps.Tokens.Items \o Pending(TokenTypeOperand)
                       \o <<fToken(<<"%">>, TokenTypeOperatorPostfix, NoSubType)>>
                /\ ps'.Offset = ps.Offset + 1
                /\ ps'.Token = <<>>
       ]_vars
  /\ []((Fresh /\ pc \in {"walk3", "done"}) =>
         /\ Len(tokens2.Items) = Len(ResolvedStream)
         /\ \A i \in 1..Len(ResolvedStream) :
              /\ (IsComparatorToken(ResolvedStream[i])
                    \/ ResolvedStream[i].TType = TokenTypeOperatorPostfix) =>
                   tokens2.Items[i] = ResolvedStream[i]
              /\ \A c \in ResidualOperators :
                   IsScannedSign(ResolvedStream[i], c) =>
                     tokens2.Items[i] =
                       fToken(<<c>>, TokenTypeOperatorInfix, ResidualSubType(c))
              /\ ResolvedStream[i].TType = TokenTypeOperatorPostfix =>
                   ResolvedStream[i] = fToken(<<"%">>, TokenTypeOperatorPostfix, NoSubType)
              /\ IsComparatorToken(ResolvedStream[i]) =>
                   ResolvedStream[i].TSubType = TokenSubTypeLogical)
  /\ []((Fresh /\ Done) => Returned = SelectSeq(tokens2.Items, NotNoop))

\* A "<>" was returned as one Logical comparator with a Concatenation "&"
\* behind it.
C27_Witness ==
  /\ Done
  /\ Fresh
  /\ \E i \in 1..(Len(Returned) - 1) :
       /\ Returned[i] = fToken(<<"<", ">">>, TokenTypeOperatorInfix, TokenSubTypeLogical)
       /\ Returned[i + 1] =
            fToken(<<"&">>, TokenTypeOperatorInfix, TokenSubTypeConcatenation)

\* --------------------------------------------------------------------- C28

\* The value is the decimal text of a finite floating-point number.
ParsesAsFiniteFloat(value) ==
  /\ IsDecimalSyntax(StripSign(value))
  /\ ~DecimalOverflows(StripSign(value))

\* The one subtype of an Operand that left the scan without one.
ClassifiedAs(value) ==
  IF ParsesAsFiniteFloat(value) THEN TokenSubTypeNumber
  ELSE IF value \in {<<"T", "R", "U", "E">>, <<"F", "A", "L", "S", "E">>}
    THEN TokenSubTypeLogical
  ELSE TokenSubTypeRange

\* C28: an Operand that left the scan with an empty subtype comes out of the
\* disambiguation walk as Number if and only if its value parses as a finite
\* floating-point number, otherwise as Logical if and only if its value is
\* TRUE or FALSE, otherwise as Range; an Operand typed Text or Error by the
\* scan is left as it is.
C28_OperandClassification ==
  (Fresh /\ pc \in {"walk3", "done"}) =>
    /\ Len(tokens2.Items) = Len(ResolvedStream)
    /\ \A i \in 1..Len(ResolvedStream) :
         ResolvedStream[i].TType = TokenTypeOperand =>
           tokens2.Items[i] =
             IF ResolvedStream[i].TSubType = NoSubType
               THEN fToken(ResolvedStream[i].TValue, TokenTypeOperand,
                           ClassifiedAs(ResolvedStream[i].TValue))
               ELSE ResolvedStream[i]

\* --------------------------------------------------------------------- C29

\* The Start token a "(" opens with the accumulator as it is.
Opened ==
  IF ps.Token # <<>>
    THEN fToken(ps.Token, TokenTypeFunction, TokenSubTypeStart)
    ELSE fToken(<<>>, TokenTypeSubexpression, TokenSubTypeStart)

\* C29: a "(" read in normal mode appends exactly one token and pushes the
\* same token: (accumulator, Function, Start) when the accumulator is not
\* empty, ("", Subexpression, Start) when it is; the accumulator is empty
\* afterwards and the offset one further.  The scan output of a formula
\* without "{" holds one Start for every "(" read in normal mode.
C29_ParenOpen ==
  /\ [][ ReadsNormally(ParenOpen) =>
           /\ ps'.Tokens.Items = Append(ps.Tokens.Items, Opened)
           /\ ps'.TokenStack.Items = Append(ps.TokenStack.Items, Opened)
           /\ ps'.Token = <<>>
           /\ ps'.Offset = ps.Offset + 1
           /\ Normal(ps')
       ]_vars
  /\ []((Fresh /\ pc \in {"walk1", "walk2", "walk3", "done"}) =>
         Count(scanOut, IsStart) = CountChar(normalRead, ParenOpen))

\* A function was opened by its name, and a subexpression directly behind
\* the "," after it.
C29_Witness ==
  /\ Done
  /\ Fresh
  /\ \E i \in 1..(Len(Returned) - 2) :
       /\ Returned[i] = fToken(<<"A">>, TokenTypeFunction, TokenSubTypeStart)
       /\ Returned[i + 1].TType = TokenTypeArgument
       /\ Returned[i + 2] = fToken(<<>>, TokenTypeSubexpression, TokenSubTypeStart)

\* --------------------------------------------------------------------- C30

\* C30: every iteration of the scan loop strictly increases Offset and leaves
\* it at most the length of the normalized formula, the steps of two
\* characters included; the loop is left with Offset equal to the length,
\* and it is left; each step of the three walks moves the index of the
\* stream it walks one token on and leaves the length of that stream as it
\* is; the walks end and the call returns.
C30_ScanTerminates ==
  /\ [][ /\ (Fresh /\ pc = "scan" /\ ~ParserEOF(ps)) =>
              /\ ps'.Formula = ps.Formula
              /\ ps'.Offset > ps.Offset
              /\ ps'.Offset <= Len(ps.Formula)
         /\ (Fresh /\ pc = "scan" /\ pc' = "walk1") =>
              /\ ps.Offset = Len(ps.Formula)
              /\ ps'.Offset = ps.Offset
         /\ (Fresh /\ pc = "walk1" /\ pc' = "walk1") =>
              /\ ps'.Tokens.Index = ps.Tokens.Index + 1
              /\ ps'.Tokens.Index < Len(ps.Tokens.Items)
              /\ ps'.Tokens.Items = ps.Tokens.Items
         /\ (Fresh /\ pc = "walk2" /\ pc' = "walk2") =>
              /\ tokens2'.Index = tokens2.Index + 1
              /\ tokens2'.Index < Len(tokens2.Items)
              /\ Len(tokens2'.Items) = Len(tokens2.Items)
         /\ (Fresh /\ pc = "walk3" /\ pc' = "walk3") =>
              /\ tokens2'.Index = tokens2.Index + 1
              /\ tokens2'.Index < Len(tokens2.Items)
              /\ tokens2'.Items = tokens2.Items
       ]_vars
  /\ []((Fresh /\ pc # "idle") => ps.Offset <= Len(ps.Formula))
  /\ (pc = "scan") ~> (pc = "walk1" /\ ps.Offset = Len(ps.Formula))
  /\ (pc = "walk1") ~> (pc = "done")

\* A formula with a two-character comparator was scanned to its end and
\* returned.
C30_Witness ==
  /\ Done
  /\ Fresh
  /\ ps.Offset = Len(ps.Formula)
  /\ \E i \in 1..Len(scanOut) : IsComparatorToken(scanOut[i])
  /\ Len(scanOut) < Len(ps.Formula)

\* --------------------------------------------------------------------- C31

\* s is the beginning of t.
IsPrefix(s, t) == Len(s) <= Len(t) /\ SubSeq(t, 1, Len(s)) = s

\* The returned token r is what the later phases make of the scanned token
\* t: the Intersection of a Whitespace, or a token of the value of t, one
\* leading "@" of a function name apart.
ComesFrom(r, t) ==
  IF IsWhitespaceToken(t)
    THEN r = fToken(t.TValue, TokenTypeOperatorInfix, TokenSubTypeIntersection)
    ELSE /\ ~IsIntersection(r)
         /\ \/ r.TValue = t.TValue
            \/ /\ t.TType = TokenTypeFunction
               /\ t.TValue = <<"@">> \o r.TValue

\* The stream ret, from position j on, is found in order in the stream out
\* from position i on (each token matched with the first one it comes from).
RECURSIVE Embeds(_, _, _, _)
Embeds(out, i, ret, j) ==
  IF j > Len(ret) THEN TRUE
  ELSE IF i > Len(out) THEN FALSE
  ELSE IF ComesFrom(ret[j], out[i]) THEN Embeds(out, i + 1, ret, j + 1)
  ELSE Embeds(out, i + 1, ret, j)

\* C31: every step of the scan, its final flush included, leaves the output
\* it found as the beginning of the output it makes; the stream of the
\* disambiguation walk is, token for token, the white-space-resolved scan
\* output with the values kept up to one stripped "@" of a function name;
\* the returned stream is that stream without its Noops, and is found in
\* order in the scan output, an Intersection in the place of each kept
\* Whitespace.
C31_OrderAndAppendOnly ==
  /\ [][ /\ (Fresh /\ pc = "scan") => IsPrefix(ps.Tokens.Items, ps'.Tokens.Items)
         /\ (Fresh /\ pc = "walk1" /\ pc' = "walk1") =>
              IsPrefix(tokens2.Items, tokens2'.Items)
         /\ (Fresh /\ pc = "walk3" /\ pc' = "walk3") =>
              IsPrefix(tokens.Items, tokens'.Items)
       ]_vars
  /\ []((Fresh /\ pc \in {"walk3", "done"}) =>
         LET R == ResolvedStream
         IN  /\ Len(tokens2.Items) = Len(R)
             /\ \A i \in 1..Len(R) :
                  IF IsIntersection(R[i])
                    THEN tokens2.Items[i] = R[i]
                    ELSE ComesFrom(tokens2.Items[i], R[i]))
  /\ []((Fresh /\ Done) =>
         /\ Returned = SelectSeq(tokens2.Items, NotNoop)
         /\ Embeds(scanOut, 1, Returned, 1))

\* An Intersection was returned in the place of a Whitespace, between the
\* tokens that stood around it in the scan output.
C31_Witness ==
  /\ Done
  /\ Fresh
  /\ \E i \in 2..(Len(scanOut) - 1) :
       /\ IsWhitespaceToken(scanOut[i])
       /\ Len(Returned) = Len(scanOut) - 1
       /\ IsIntersection(Returned[i - 1])
       /\ Returned[i].TValue = scanOut[i + 1].TValue

====
